---- MODULE Spec2Model ----
(***************************************************************************)
(* A model of the Rant runtime: the resolver's selectors and block states  *)
(* (runtime/resolver.rs), the call stack's variable lookup                 *)
(* (runtime/stack.rs) and the VM's call machinery (runtime.rs).            *)
(*                                                                         *)
(* Indices are 0-based as in the source; TLA+ sequences are 1-based, so    *)
(* the jump table entry of index i is jump_table[i + 1].                   *)
(***************************************************************************)
EXTENDS Integers, Sequences, FiniteSets, TLC

VARIABLES sel, sel_last, sel_rets, block, blk_acts,
          program, call_stack, locals, globals, val_stack, vm_result, invoked, heap,
          stack_ops,
          resolver, attr_last, attr_ops,
          tokens, reader, var_stack, capture_stack, has_errors, reporter,
          parse_stack, parse_ret, parse_result

selVars == <<sel, sel_last, sel_rets>>
blkVars == <<block, blk_acts>>
vmVars == <<program, call_stack, locals, globals, val_stack, vm_result, invoked, heap,
            stack_ops>>
resVars == <<resolver, attr_last, attr_ops>>
parseVars == <<tokens, reader, var_stack, capture_stack, has_errors, reporter,
               parse_stack, parse_ret, parse_result>>
vars == <<sel, sel_last, sel_rets, block, blk_acts,
          program, call_stack, locals, globals, val_stack, vm_result, invoked, heap,
          stack_ops,
          resolver, attr_last, attr_ops,
          tokens, reader, var_stack, capture_stack, has_errors, reporter,
          parse_stack, parse_ret, parse_result>>

(* Largest element count a selector or block is used with. *)
MaxN == 3
(* Largest number of successful select calls recorded in one behaviour. *)
MaxCalls == 6
(* Largest n of Reps::Repeat(n) a block is created with. *)
MaxReps == 3
(* Largest number of next_element calls recorded for one block. *)
MaxActs == 7
(* Largest number of argument expressions of a call. *)
MaxArgs == 4
(* Largest number of required and of optional parameters of a function. *)
MaxRequired == 2
MaxOptional == 1
(* Largest number of frames (scope layers) below and including the caller. *)
MaxDepth == 3
(* Number of recursion levels followed from the start and before the limit. *)
MaxClimb == 4
(* Largest number of Resolver operations in one behaviour. *)
MaxAttrOps == 4
(* dynamic keys in an access path *)
MaxKeys == 2
(* Largest number of accessors and calls in a row in a function body. *)
MaxItems == 2
(* The largest element count of a block whose steps are compared. *)
MaxLen == 2
(* Largest number of calls made on a call stack used on its own. *)
MaxStackOps == 5
(* Largest number of frames of a call stack that is rendered or searched. *)
MaxFrames == 4
(* Largest number of items of a source that holds whitespace. *)
MaxSpaced == 4
(* Largest number of frames, each with a scope layer, under the variables *)
(* accessed, and the largest descope count.                                *)
MaxScopes == 2
(* Largest number of resolver calls made for a chain of conditional blocks. *)
MaxChainOps == 12
(* Largest number of parameters of a closure. *)
MaxParams == 3
(* Largest number of components of an access path. *)
MaxPath == 3
(* runtime.rs: pub const MAX_STACK_SIZE *)
MAX_STACK_SIZE == 20000

Min(a, b) == IF a < b THEN a ELSE b

(* usize::saturating_sub(1) *)
saturating_sub1(x) == IF x = 0 THEN 0 ELSE x - 1

(***************************************************************************)
(* Tokens and syntax tree of the parser (compiler/parser.rs)               *)
(*                                                                         *)
(* A token is its RantToken variant with the text of a Fragment in s and   *)
(* the value of an Integer in n. The source holds no whitespace.           *)
(***************************************************************************)

Tok(t) == [t |-> t, s |-> "", n |-> 0]
Fragment(text) == [t |-> "Fragment", s |-> text, n |-> 0]
Integer(k) == [t |-> "Integer", s |-> "", n |-> k]
(* What the reader returns at the end of the source (None). *)
EndOfSource == Tok("None")

Local == [k |-> "Local", n |-> 0]
ExplicitGlobal == [k |-> "ExplicitGlobal", n |-> 0]
Descope(n) == [k |-> "Descope", n |-> n]

AccessPath_new(idparts, access_kind) == [parts |-> idparts, kind |-> access_kind]
NoPath == AccessPath_new(<<>>, Local)

AccessPathComponent_Name(varname) == [c |-> "Name", s |-> varname, n |-> 0, expr |-> <<>>]
AccessPathComponent_Index(index) == [c |-> "Index", s |-> "", n |-> index, expr |-> <<>>]
AccessPathComponent_DynamicKey(expr) == [c |-> "DynamicKey", s |-> "", n |-> 0, expr |-> expr]
AccessPathComponent_AnonymousValue(expr) ==
  [c |-> "AnonymousValue", s |-> "", n |-> 0, expr |-> expr]

(* AccessPath::is_anonymous, AccessPathKind::is_local and                  *)
(* AccessPath::capture_var_name: the name the path starts with, if any.    *)
is_anonymous(path) == Len(path.parts) > 0 /\ path.parts[1].c = "AnonymousValue"
is_local(access_kind) == access_kind.k = "Local"
capture_var_name(path) ==
  IF Len(path.parts) > 0 /\ path.parts[1].c = "Name" THEN {path.parts[1].s} ELSE {}

(* Rst nodes. exprs holds the sequences a node owns: the initialiser or    *)
(* the fallback of an accessor (none or one), the value of a setter, the   *)
(* elements of a block, the arguments of a call (after the function        *)
(* expression of an anonymous call), the body of a function.               *)
NoRst == [k |-> "", s |-> "", n |-> 0, kind |-> Local, path |-> NoPath,
          exprs |-> <<>>, params |-> <<>>, capture_vars |-> {}, flag |-> "None"]
Rst_Fragment(frag) == [NoRst EXCEPT !.k = "Fragment", !.s = frag]
Rst_Integer(k) == [NoRst EXCEPT !.k = "Integer", !.n = k]
Rst_Whitespace(ws) == [NoRst EXCEPT !.k = "Whitespace", !.s = ws]
Rst_Block(sequences) == [NoRst EXCEPT !.k = "Block", !.exprs = sequences]
Rst_VarDef(id, access_kind, opt_expr) ==
  [NoRst EXCEPT !.k = "VarDef", !.s = id, !.kind = access_kind, !.exprs = opt_expr]
Rst_VarGet(path, opt_fallback) ==
  [NoRst EXCEPT !.k = "VarGet", !.path = path, !.exprs = opt_fallback]
Rst_VarSet(path, expr) == [NoRst EXCEPT !.k = "VarSet", !.path = path, !.exprs = <<expr>>]
Rst_FuncDef(id, params, body, captures) ==
  [NoRst EXCEPT !.k = "FuncDef", !.path = id, !.params = params, !.exprs = <<body>>,
                !.capture_vars = captures]
Rst_Closure(params, body, captures) ==
  [NoRst EXCEPT !.k = "Closure", !.params = params, !.exprs = <<body>>,
                !.capture_vars = captures]
Rst_FuncCall(id, arguments) ==
  [NoRst EXCEPT !.k = "FuncCall", !.path = id, !.exprs = arguments]
Rst_AnonFuncCall(expr, args) ==
  [NoRst EXCEPT !.k = "AnonFuncCall", !.exprs = <<expr>> \o args]

Parameter(name, varity) == [name |-> name, varity |-> varity]

(* What a parsing function hands back to its caller: the nodes or the      *)
(* sequence with its SequenceEndType and is_seq_printing, the path, the    *)
(* parameters. some is FALSE while a function is still at work.            *)
NoRet == [some |-> FALSE, nodes |-> <<>>, end |-> "", printing |-> FALSE,
          path |-> NoPath, params |-> <<>>]

(* What the parser is in the specifications that compile nothing. *)
ParseIdle ==
  /\ tokens = <<>>
  /\ reader = 0
  /\ var_stack = <<>>
  /\ capture_stack = <<>>
  /\ has_errors = FALSE
  /\ reporter = {}
  /\ parse_stack = <<>>
  /\ parse_ret = NoRet
  /\ parse_result = "idle"

(***************************************************************************)
(* Selector (runtime/resolver.rs)                                          *)
(***************************************************************************)

SelectorMode ==
  {"Random", "One", "Forward", "ForwardClamp", "Reverse", "ReverseClamp",
   "Deck", "DeckLoop", "DeckClamp", "Ping", "Pong", "NoDouble"}

DeckModes == {"Deck", "DeckLoop", "DeckClamp"}

Selector_new(mode) ==
  [mode |-> mode, index |-> 0, count |-> 0, parity |-> FALSE, jump_table |-> <<>>]

is_initialized(s) == s.count > 0

(* The values rng.next_usize(max) can deliver: 0 .. max-1. *)
next_usize(max) == 0 .. (max - 1)

(* Vec::swap on the jump table. *)
swapBad(jt, i, j) == [jt EXCEPT ![i + 1] = jt[j + 1]]
swap(jt, i, j) == [jt EXCEPT ![i + 1] = jt[j + 1], ![j + 1] = jt[i + 1]]

(* The loop of Selector::shuffle: for i in 0..n { swap(i, draw_i) }. *)
RECURSIVE shuffle_loop(_, _, _, _)
shuffle_loop(jt, i, n, draws) ==
  IF i >= n THEN jt
  ELSE shuffle_loop(swap(jt, i, draws[i]), i + 1, n, draws)

(* A shuffle that populates the jump table with 1 .. n. *)
shuffleBad(s, draws) ==
  LET n == s.count
      populated == IF Len(s.jump_table) = 0
                   THEN [k \in 1..n |-> k]
                   ELSE s.jump_table
  IN [s EXCEPT !.jump_table = populated]

(* Selector::shuffle; draws[i] is the value the RNG delivers in round i. *)
shuffle(s, draws) ==
  LET n == s.count
      populated == IF Len(s.jump_table) = 0
                   THEN [k \in 1..n |-> k - 1]
                   ELSE s.jump_table
  IN [s EXCEPT !.jump_table = shuffle_loop(populated, 0, n, draws)]

(* The RNG values one select call may consume, by mode and state:          *)
(* d_init and sh_init by Selector::init, d_step and sh_step by the match   *)
(* of Selector::select. A value that the call never draws is fixed.        *)
InitDraws(s, n) ==
  IF ~is_initialized(s) /\ n > 0 /\ s.mode \in {"Random", "One", "NoDouble"}
  THEN next_usize(n) ELSE {0}

InitShuffles(s, n) ==
  IF ~is_initialized(s) /\ n > 0 /\ s.mode \in DeckModes
  THEN [0..(n - 1) -> next_usize(n)] ELSE {<<>>}

StepDraws(s, n) ==
  IF n > 0 /\ s.mode = "Random" THEN next_usize(n)
  ELSE IF n > 1 /\ s.mode = "NoDouble" THEN next_usize(n - 1)
  ELSE {0}

StepShuffles(s, n) ==
  IF n > 0 /\ s.mode = "Deck" /\ s.index >= n - 1
  THEN [0..(n - 1) -> next_usize(n)] ELSE {<<>>}

(* Selector::init: Ok carries the initialised selector. *)
init(s, elem_count, d_init, sh_init) ==
  IF elem_count = 0
  THEN [res |-> "InvalidElementCount", s |-> s]
  ELSE LET c == [s EXCEPT !.count = elem_count]
       IN [res |-> "Ok",
           s |-> CASE s.mode \in {"Random", "One"} -> [c EXCEPT !.index = d_init]
                   [] s.mode \in {"Forward", "ForwardClamp"} -> c
                   [] s.mode \in {"Reverse", "ReverseClamp"} ->
                        [c EXCEPT !.index = elem_count - 1]
                   [] s.mode \in DeckModes -> shuffle(c, sh_init)
                   [] s.mode = "Ping" -> c
                   [] s.mode = "Pong" -> [c EXCEPT !.index = elem_count - 1]
                   [] s.mode = "NoDouble" -> [c EXCEPT !.index = d_init]]

(* The arms of the match in Selector::select: the selector after the call. *)
ForwardNextBad(s, n) == [s EXCEPT !.index = s.index + 1]
ForwardNext(s, n) == [s EXCEPT !.index = (s.index + 1) % n]

ForwardClampNext(s, n) == [s EXCEPT !.index = Min(s.index + 1, n - 1)]

ReverseNextBad(s, n) == [s EXCEPT !.index = saturating_sub1(s.index)]
ReverseNext(s, n) ==
  [s EXCEPT !.index = (IF s.index = 0 THEN n ELSE s.index) - 1]

ReverseClampNext(s, n) == [s EXCEPT !.index = saturating_sub1(s.index)]

DeckNext(s, n, sh_step) ==
  IF s.index >= n - 1
  THEN [shuffle(s, sh_step) EXCEPT !.index = 0]
  ELSE [s EXCEPT !.index = s.index + 1]

DeckLoopNext(s, n) == [s EXCEPT !.index = (s.index + 1) % n]

DeckClampNextBad(s, n) == [s EXCEPT !.index = (s.index + 1) % n]
DeckClampNext(s, n) == [s EXCEPT !.index = Min(s.index + 1, n - 1)]

PingNextBad(s, n) ==
  LET prev_parity == s.parity
      parity == IF (prev_parity /\ s.index = 0) \/ (~prev_parity /\ s.index = n - 1)
                THEN ~prev_parity ELSE prev_parity
  IN [s EXCEPT !.parity = parity,
               !.index = IF parity THEN (s.index + 1) % n
                         ELSE saturating_sub1(s.index)]
PingNext(s, n) ==
  LET prev_parity == s.parity
      parity == IF (prev_parity /\ s.index = 0) \/ (~prev_parity /\ s.index = n - 1)
                THEN ~prev_parity ELSE prev_parity
  IN [s EXCEPT !.parity = parity,
               !.index = IF parity THEN saturating_sub1(s.index)
                         ELSE (s.index + 1) % n]

PongNext(s, n) ==
  LET prev_parity == s.parity
      parity == IF (~prev_parity /\ s.index = 0) \/ (prev_parity /\ s.index = n - 1)
                THEN ~prev_parity ELSE prev_parity
  IN [s EXCEPT !.parity = parity,
               !.index = IF parity THEN (s.index + 1) % n
                         ELSE saturating_sub1(s.index)]

NoDoubleNextBad(s, n, d_step) ==
  [s EXCEPT !.index = IF n > 1 THEN (s.index + d_step) % n ELSE 0]
NoDoubleNext(s, n, d_step) ==
  [s EXCEPT !.index = IF n > 1 THEN (s.index + 1 + d_step) % n ELSE 0]

(* The initialisation and sanity check that opens Selector::select. *)
select_checkBad(s, elem_count, d_init, sh_init) ==
  IF ~is_initialized(s)
  THEN init(s, elem_count, d_init, sh_init)
  ELSE IF elem_count # s.count
       THEN [res |-> "ElementCountMismatch", s |-> [s EXCEPT !.count = elem_count]]
       ELSE [res |-> "Ok", s |-> s]
select_check(s, elem_count, d_init, sh_init) ==
  IF ~is_initialized(s)
  THEN init(s, elem_count, d_init, sh_init)
  ELSE IF elem_count # s.count
       THEN [res |-> "ElementCountMismatch", s |-> s]
       ELSE [res |-> "Ok", s |-> s]

(* Selector::select. res is "Ok" or the SelectorError; idx is the index    *)
(* returned by an Ok call; s is the selector after the call.               *)
select(s0, elem_count, d_init, sh_init, d_step, sh_step) ==
  LET chk == select_check(s0, elem_count, d_init, sh_init)
      s == chk.s
      cur_index == s.index
  IN IF chk.res # "Ok"
     THEN [res |-> chk.res, idx |-> 0, s |-> s]
     ELSE CASE s.mode = "Random" ->
                 [res |-> "Ok", idx |-> cur_index, s |-> [s EXCEPT !.index = d_step]]
            [] s.mode = "One" ->
                 [res |-> "Ok", idx |-> cur_index, s |-> s]
            [] s.mode = "Forward" ->
                 [res |-> "Ok", idx |-> cur_index, s |-> ForwardNext(s, elem_count)]
            [] s.mode = "ForwardClamp" ->
                 [res |-> "Ok", idx |-> cur_index, s |-> ForwardClampNext(s, elem_count)]
            [] s.mode = "Reverse" ->
                 [res |-> "Ok", idx |-> cur_index, s |-> ReverseNext(s, elem_count)]
            [] s.mode = "ReverseClamp" ->
                 [res |-> "Ok", idx |-> cur_index, s |-> ReverseClampNext(s, elem_count)]
            [] s.mode = "Deck" ->
                 [res |-> "Ok", idx |-> s.jump_table[cur_index + 1],
                  s |-> DeckNext(s, elem_count, sh_step)]
            [] s.mode = "DeckLoop" ->
                 [res |-> "Ok", idx |-> s.jump_table[cur_index + 1],
                  s |-> DeckLoopNext(s, elem_count)]
            [] s.mode = "DeckClamp" ->
                 [res |-> "Ok", idx |-> s.jump_table[cur_index + 1],
                  s |-> DeckClampNext(s, elem_count)]
            [] s.mode = "Ping" ->
                 [res |-> "Ok", idx |-> cur_index, s |-> PingNext(s, elem_count)]
            [] s.mode = "Pong" ->
                 [res |-> "Ok", idx |-> cur_index, s |-> PongNext(s, elem_count)]
            [] s.mode = "NoDouble" ->
                 [res |-> "Ok", idx |-> cur_index,
                  s |-> NoDoubleNext(s, elem_count, d_step)]

(* sel_last before any call of select. *)
NoCall == [n |-> 0, res |-> "none", idx |-> 0]

(* The RNG values a select call on s with elem_count may consume. *)
RngDraws(s, elem_count) ==
  [d_init : InitDraws(s, elem_count), sh_init : InitShuffles(s, elem_count),
   d_step : StepDraws(s, elem_count), sh_step : StepShuffles(s, elem_count)]


(***************************************************************************)
(* Values (RantValue). Every value is a record of one shape: t is the type *)
(* name, n the integer of an "int", s the text of a "string", fn the       *)
(* function of a "function". A list and a map are shared and mutable       *)
(* (Rc<RefCell<..>>): the value holds in n the address of the collection   *)
(* in heap, and every copy of the value refers to the same collection.     *)
(***************************************************************************)

NoFn == [id |-> 0, params |-> <<>>, native |-> FALSE,
         min_arg_count |-> 0, vararg_start_index |-> 0]

Empty == [t |-> "empty", n |-> 0, s |-> "", fn |-> NoFn]
IntVal(k) == [t |-> "int", n |-> k, s |-> "", fn |-> NoFn]
StringVal(text) == [t |-> "string", n |-> 0, s |-> text, fn |-> NoFn]
ListVal(address) == [t |-> "list", n |-> address, s |-> "", fn |-> NoFn]
MapVal(address) == [t |-> "map", n |-> address, s |-> "", fn |-> NoFn]
FuncVal(f) == [t |-> "function", n |-> 0, s |-> "", fn |-> f]

(* A collection in heap: the items of a list (RantList), or the entries of *)
(* a map (RantMap), a function from the keys to the values.                *)
ListObj(items) == [items |-> items, entries |-> <<>>]
MapObj(entries) == [items |-> <<>>, entries |-> entries]

(***************************************************************************)
(* AttributeFrame, Reps and BlockState (runtime/resolver.rs)               *)
(*                                                                         *)
(* An Option<bool> is "None", "True" or "False". The selector of a frame   *)
(* is a shared reference, Option<SelectorRef>: 0 is None, k > 0 names the  *)
(* selector referred to; selector 1 is the variable sel. The print flag    *)
(* does not influence the iteration and is left out.                       *)
(***************************************************************************)

RepsValues ==
  {[kind |-> "RepeatForever", n |-> 0], [kind |-> "All", n |-> 0],
   [kind |-> "Once", n |-> 0]}
  \cup {[kind |-> "Repeat", n |-> k] : k \in 0..MaxReps}

Reps_is_infinite(reps) == reps.kind = "RepeatForever"

get_rep_count_for(reps, block_len) ==
  CASE reps.kind = "RepeatForever" -> 0
    [] reps.kind = "Once" -> 1
    [] reps.kind = "All" -> block_len
    [] reps.kind = "Repeat" -> reps.n

AttributeFrame_default ==
  [condval |-> "None", prev_condval |-> "None", no_propagate_condval |-> FALSE,
   reps |-> [kind |-> "Once", n |-> 0], separator |-> Empty, selector |-> 0]

(* attrs.selector.is_some() *)
has_selector(attrs) == attrs.selector # 0

(* The block state Resolver::push_block builds from the attribute frame    *)
(* it took and the block's element count.                                  *)
BlockState_new(attrs, block_len) ==
  [elements_len |-> block_len,
   cur_steps |-> 0,
   total_steps |-> get_rep_count_for(attrs.reps, block_len),
   attrs |-> attrs,
   prev_step_separated |-> FALSE,
   force_stop |-> FALSE]

(* is_done that takes no notice of force_stop. *)
is_doneUnforcedBad(b) ==
  \/ b.attrs.condval = "False"
  \/ (~Reps_is_infinite(b.attrs.reps) /\ b.cur_steps >= b.total_steps)

(* BlockState::is_done *)
is_doneBad(b) ==
  \/ b.force_stop
  \/ b.attrs.condval = "False"
  \/ (~Reps_is_infinite(b.attrs.reps) /\ b.cur_steps > b.total_steps)
is_done(b) ==
  \/ b.force_stop
  \/ b.attrs.condval = "False"
  \/ (~Reps_is_infinite(b.attrs.reps) /\ b.cur_steps >= b.total_steps)

(* The block state placeholder of the specifications that use no block. *)
NoBlock == BlockState_new(AttributeFrame_default, 1)

(* RantValue::is_empty, RantValue::is_callable *)
is_empty(v) == v.t = "empty"
is_callable(v) == v.t = "function"

(* RantValue::to_string: a string is its own text, an integer is written   *)
(* in decimal, Empty is the empty string; the text of any other value is   *)
(* its type name in brackets.                                              *)
to_string(v) ==
  CASE v.t = "string" -> v.s
    [] v.t = "int" -> ToString(v.n)
    [] v.t = "empty" -> ""
    [] OTHER -> "[" \o v.t \o "]"

(***************************************************************************)
(* Resolver: the attribute frames and the block stack (resolver.rs).       *)
(* resolver is [base_attrs, attr_override_stack, block_stack], the last    *)
(* member of a stack its top.                                              *)
(***************************************************************************)

SomeBool(b) == IF b THEN "True" ELSE "False"

(* AttributeFrame::propagate *)
propagate(frame) ==
  [AttributeFrame_default EXCEPT
     !.prev_condval = IF frame.no_propagate_condval THEN "None" ELSE frame.condval]

(* AttributeFrame::make_if *)
make_if(frame, cond_val) ==
  [frame EXCEPT !.condval = SomeBool(cond_val), !.no_propagate_condval = cond_val]

(* AttributeFrame::make_else *)
make_else(frame) ==
  [frame EXCEPT !.condval = IF frame.prev_condval = "None" THEN "False"
                            ELSE SomeBool(~(frame.prev_condval = "True")),
                !.no_propagate_condval = TRUE]

(* AttributeFrame::make_else_if *)
make_else_ifBad(frame, cond_val) ==
  [frame EXCEPT !.condval = IF frame.prev_condval = "None" THEN "False"
                            ELSE SomeBool((frame.prev_condval = "True") /\ cond_val),
                !.no_propagate_condval = cond_val \/ frame.prev_condval = "None"]
make_else_if(frame, cond_val) ==
  LET has_propagated_condval == frame.prev_condval = "None"
  IN [frame EXCEPT !.condval = IF frame.prev_condval = "None" THEN "False"
                               ELSE SomeBool(~(frame.prev_condval = "True") /\ cond_val),
                   !.no_propagate_condval = cond_val \/ has_propagated_condval]

(* Resolver::new *)
Resolver_new ==
  [base_attrs |-> AttributeFrame_default,
   attr_override_stack |-> <<AttributeFrame_default>>,
   block_stack |-> <<>>]

(* Resolver::attrs and the assignment through Resolver::attrs_mut *)
attrs(r) ==
  IF Len(r.attr_override_stack) = 0 THEN r.base_attrs
  ELSE r.attr_override_stack[Len(r.attr_override_stack)]

attrs_mut(r, frame) ==
  IF Len(r.attr_override_stack) = 0 THEN [r EXCEPT !.base_attrs = frame]
  ELSE [r EXCEPT !.attr_override_stack[Len(r.attr_override_stack)] = frame]

(* Resolver::take_attrs: the frame taken and the resolver left. *)
take_attrsBad(r) == [taken |-> attrs(r), r |-> r]
take_attrs(r) == [taken |-> attrs(r), r |-> attrs_mut(r, propagate(attrs(r)))]

(* Resolver::reset_attrs *)
reset_attrs(r) == attrs_mut(r, AttributeFrame_default)

(* Resolver::push_attrs, Resolver::pop_attrs *)
push_attrs(r) ==
  [r EXCEPT !.attr_override_stack = Append(@, AttributeFrame_default)]

pop_attrs(r) ==
  IF Len(r.attr_override_stack) = 0 THEN r
  ELSE [r EXCEPT !.attr_override_stack = SubSeq(@, 1, Len(@) - 1)]

(* Resolver::push_block for a block of block_len elements, Resolver::pop_block *)
push_block(r, block_len) ==
  LET t == take_attrs(r)
  IN [t.r EXCEPT !.block_stack = Append(@, BlockState_new(t.taken, block_len))]

pop_block(r) ==
  IF Len(r.block_stack) = 0 THEN r
  ELSE [r EXCEPT !.block_stack = SubSeq(@, 1, Len(@) - 1)]

(* attr_last before any attribute operation. *)
NoAttrOp == [op |-> "none", x |-> FALSE, prior |-> "None"]

(* What the resolver is in the specifications that use none. *)
ResIdle ==
  /\ resolver = Resolver_new
  /\ attr_last = NoAttrOp
  /\ attr_ops = 0

(***************************************************************************)
(* Functions (runtime.rs, RST::FuncDef and RST::Closure)                   *)
(***************************************************************************)

Varity == {"Required", "Optional", "VariadicStar", "VariadicPlus"}

Varity_is_variadic(v) == v \in {"VariadicStar", "VariadicPlus"}

(* Parameter::is_required *)
is_required(p) == p.varity \in {"Required", "VariadicPlus"}

take_while_requiredBad(params, i) == Len(params) + 1

(* The length of the longest prefix of params whose members satisfy        *)
(* is_required: params.iter().take_while(|p| p.is_required()).count()      *)
RECURSIVE take_while_required(_, _)
take_while_required(params, i) ==
  IF i > Len(params) \/ ~is_required(params[i]) THEN i - 1
  ELSE take_while_required(params, i + 1)

(* The 0-based index of the first variadic parameter, or params.len().     *)
RECURSIVE find_variadic(_, _)
find_variadic(params, i) ==
  IF i > Len(params) THEN Len(params)
  ELSE IF Varity_is_variadic(params[i].varity) THEN i - 1
  ELSE find_variadic(params, i + 1)

(* The RantFunction the VM builds for a FuncDef or Closure node; a native  *)
(* function carries the same fields.                                       *)
RantFunction_new(id, params, native) ==
  [id |-> id, params |-> params, native |-> native,
   min_arg_count |-> take_while_required(params, 1),
   vararg_start_index |-> find_variadic(params, 1)]

(* RantFunction::is_variadic, RantFunction::is_native *)
is_variadic(func) == func.vararg_start_index < Len(func.params)
is_native(func) == func.native

(* Invoke: "Verify the args fit the signature". res is "Ok" with the       *)
(* argument list to pass on, "ArgumentMismatch", or "Panic": Vec::drain    *)
(* panics when the end of its range exceeds the vector's length. made      *)
(* holds the list the variadic arguments are condensed into, which is      *)
(* stored at address.                                                      *)
verify_args(func, args, address) ==
  LET argc == Len(args)
  IN IF is_variadic(func)
     THEN IF argc < func.min_arg_count
          THEN [res |-> "ArgumentMismatch", args |-> <<>>, made |-> <<>>]
          ELSE IF ~is_native(func)
               THEN IF func.vararg_start_index > argc
                    THEN [res |-> "Panic", args |-> <<>>, made |-> <<>>]
                    ELSE [res |-> "Ok",
                          args |-> Append(SubSeq(args, 1, func.vararg_start_index),
                                          ListVal(address)),
                          made |-> <<ListObj(SubSeq(args, func.vararg_start_index + 1,
                                                    argc))>>]
               ELSE [res |-> "Ok", args |-> args, made |-> <<>>]
     ELSE IF argc < func.min_arg_count \/ argc > Len(func.params)
          THEN [res |-> "ArgumentMismatch", args |-> <<>>, made |-> <<>>]
          ELSE [res |-> "Ok", args |-> args, made |-> <<>>]

(* Invoke: "Convert the args into a locals map": raw_set of each parameter *)
(* name, in order, to the next argument or Empty.                          *)
Max(S) == CHOOSE x \in S : \A y \in S : y <= x

func_localsBad(func, args) ==
  [nm \in {func.params[i].name : i \in 1..Len(func.params)} |->
     LET i == Max({j \in 1..Len(func.params) : func.params[j].name = nm})
     IN IF i < Len(args) THEN args[i] ELSE Empty]
func_locals(func, args) ==
  [nm \in {func.params[i].name : i \in 1..Len(func.params)} |->
     LET i == Max({j \in 1..Len(func.params) : func.params[j].name = nm})
     IN IF i <= Len(args) THEN args[i] ELSE Empty]

(***************************************************************************)
(* Scopes (runtime/stack.rs). locals is the ScopeMap of the call stack: a  *)
(* sequence of layers, the last one the innermost; a layer maps the names  *)
(* defined in it to their values. globals maps the engine's global names.  *)
(***************************************************************************)

(* ScopeMap::get_all: the values bound to id, innermost layer first. *)
get_all(layers, id) ==
  LET binding == {k \in 1..Len(layers) : id \in DOMAIN layers[k]}
      nth(r) == CHOOSE k \in binding : Cardinality({j \in binding : j >= k}) = r
  IN [r \in 1..Cardinality(binding) |-> layers[nth(r)][id]]

(* Iterator::find(is_callable) over vars[k..]: the position, 0 if none. *)
RECURSIVE find_callable(_, _)
find_callable(vs, k) ==
  IF k > Len(vs) THEN 0
  ELSE IF is_callable(vs[k]) THEN k
  ELSE find_callable(vs, k + 1)

(* The macro trickle_down_func_lookup of get_var_value, on a non-empty     *)
(* pile of the values bound to id (topmost first).                         *)
trickle_down_func_lookupBad(vs, glob, id) == vs[1]
trickle_down_func_lookup(vs, glob, id) ==
  IF ~is_callable(vs[1])
  THEN LET k == find_callable(vs, 2)
       IN IF k # 0 THEN vs[k]
          ELSE IF id \in DOMAIN glob /\ is_callable(glob[id]) THEN glob[id]
          ELSE vs[1]
  ELSE vs[1]

(* ScopeMap::get_parents(id, n): the values bound to id in the layers      *)
(* under the n innermost ones, innermost first; get_parent, and            *)
(* get_parent_mut, give the first of them.                                 *)
get_parents(layers, id, n) ==
  get_all(SubSeq(layers, 1, Len(layers) - n), id)

(* The layer of the binding that get_mut (n = 0) or get_parent_mut gives,  *)
(* 0 if there is none.                                                     *)
get_parent_mut(layers, id, n) ==
  LET binding == {k \in 1..(Len(layers) - n) : id \in DOMAIN layers[k]}
  IN IF binding = {} THEN 0 ELSE Max(binding)

(* Rant::has_global, Rant::get_global and Rant::set_global. *)
has_global(glob, id) == id \in DOMAIN glob
set_global(glob, id, val) ==
  [nm \in DOMAIN glob \cup {id} |-> IF nm = id THEN val ELSE glob[nm]]

(* A get_var_value that looks at the locals whatever the access kind. *)
get_var_valueBad(layers, glob, id, access, prefer_function) ==
  LET vs == get_all(layers, id)
  IN IF Len(vs) > 0 THEN [res |-> "Ok", val |-> vs[1]]
     ELSE IF has_global(glob, id) THEN [res |-> "Ok", val |-> glob[id]]
     ELSE [res |-> "InvalidAccess", val |-> Empty]

(* CallStack::get_var_value *)
get_var_value(layers, glob, id, access, prefer_function) ==
  LET vs == IF access.k = "Local" THEN get_all(layers, id)
            ELSE IF access.k = "Descope" THEN get_parents(layers, id, access.n)
            ELSE <<>>
  IN IF Len(vs) > 0
     THEN [res |-> "Ok",
           val |-> IF prefer_function THEN trickle_down_func_lookup(vs, glob, id)
                   ELSE vs[1]]
     ELSE IF id \in DOMAIN glob
          THEN [res |-> "Ok", val |-> glob[id]]
          ELSE [res |-> "InvalidAccess", val |-> Empty]

(* CallStack::get_local as the VM calls it: a Local lookup, which prefers  *)
(* a function when the value looked up is the callee of a named call.      *)
get_local(layers, glob, id, for_callee) ==
  get_var_value(layers, glob, id, Local, for_callee)

(* ScopeMap::define in the innermost layer (def_var_value, Local). *)
define(layers, id, val) ==
  [layers EXCEPT ![Len(layers)] =
     [nm \in DOMAIN layers[Len(layers)] \cup {id} |->
        IF nm = id THEN val ELSE layers[Len(layers)][nm]]]

(* ScopeMap::define_parent(id, var, n): define in the layer n under the    *)
(* innermost one, or in the base layer if there are not that many.         *)
ScopeMap_define_parent(layers, id, val, n) ==
  LET k == IF n >= Len(layers) THEN 1 ELSE Len(layers) - n
  IN [layers EXCEPT ![k] =
        [nm \in DOMAIN layers[k] \cup {id} |-> IF nm = id THEN val ELSE layers[k][nm]]]

(* A set_var_value that defines the global when the name is not found. *)
set_var_valueBad(layers, glob, id, access, val) ==
  LET k == IF access.k = "Local" THEN get_parent_mut(layers, id, 0)
           ELSE IF access.k = "Descope" THEN get_parent_mut(layers, id, access.n)
           ELSE 0
  IN IF k # 0
     THEN [res |-> "Ok", glob |-> glob, layers |-> [layers EXCEPT ![k][id] = val]]
     ELSE [res |-> "Ok", layers |-> layers, glob |-> set_global(glob, id, val)]

(* CallStack::set_var_value: the binding that the access kind reaches is   *)
(* written, else the global id if there is one.                            *)
set_var_value(layers, glob, id, access, val) ==
  LET k == IF access.k = "Local" THEN get_parent_mut(layers, id, 0)
           ELSE IF access.k = "Descope" THEN get_parent_mut(layers, id, access.n)
           ELSE 0
  IN IF k # 0
     THEN [res |-> "Ok", glob |-> glob, layers |-> [layers EXCEPT ![k][id] = val]]
     ELSE IF has_global(glob, id)
          THEN [res |-> "Ok", layers |-> layers, glob |-> set_global(glob, id, val)]
          ELSE [res |-> "InvalidAccess", layers |-> layers, glob |-> glob]

(* CallStack::set_local as the VM calls it. *)
set_local(layers, glob, id, val) == set_var_value(layers, glob, id, Local, val)

(* CallStack::def_var_value: the locals and the globals after the call,    *)
(* which always returns Ok.                                                *)
def_var_value(layers, glob, id, access, val) ==
  IF access.k = "Local" THEN [layers |-> define(layers, id, val), glob |-> glob]
  ELSE IF access.k = "Descope"
       THEN [layers |-> ScopeMap_define_parent(layers, id, val, access.n), glob |-> glob]
       ELSE [layers |-> layers, glob |-> set_global(glob, id, val)]

(***************************************************************************)
(* Lists and maps (collections.rs; RantValue's accessors). h is the heap.  *)
(***************************************************************************)

(* RantMap::raw_set *)
raw_setBad(entries, key, val) ==
  [k \in DOMAIN entries \cup {key} |-> IF k \in DOMAIN entries THEN entries[k] ELSE val]

raw_set(entries, key, val) ==
  [k \in DOMAIN entries \cup {key} |-> IF k = key THEN val ELSE entries[k]]

(* RantValue::get_by_index: an index below 0 counts from the end. *)
get_by_index(h, v, index) ==
  IF v.t # "list" THEN [res |-> "IndexError", val |-> Empty]
  ELSE LET items == h[v.n].items
           i == IF index < 0 THEN Len(items) + index ELSE index
       IN IF 0 <= i /\ i < Len(items)
          THEN [res |-> "Ok", val |-> items[i + 1]]
          ELSE [res |-> "IndexError", val |-> Empty]

(* RantValue::get_by_key *)
get_by_key(h, v, key) ==
  IF v.t = "map" /\ key \in DOMAIN h[v.n].entries
  THEN [res |-> "Ok", val |-> h[v.n].entries[key]]
  ELSE [res |-> "KeyError", val |-> Empty]

(* RantValue::set_by_index: the heap after the write. *)
set_by_index(h, v, index, val) ==
  IF v.t # "list" THEN [res |-> "IndexError", heap |-> h]
  ELSE LET items == h[v.n].items
           i == IF index < 0 THEN Len(items) + index ELSE index
       IN IF 0 <= i /\ i < Len(items)
          THEN [res |-> "Ok", heap |-> [h EXCEPT ![v.n].items[i + 1] = val]]
          ELSE [res |-> "IndexError", heap |-> h]

(* RantValue::set_by_key: the heap after the write. *)
set_by_key(h, v, key, val) ==
  IF v.t # "map" THEN [res |-> "KeyError", heap |-> h]
  ELSE [res |-> "Ok",
        heap |-> [h EXCEPT ![v.n].entries = raw_set(h[v.n].entries, key, val)]]

(***************************************************************************)
(* VM::get_value and VM::set_value: the walk along an access path. keys    *)
(* are the values of the path's dynamic keys in the order the walk takes   *)
(* them, kpos the position of the next one. A result "Panic" is an         *)
(* unreachable!() reached.                                                 *)
(***************************************************************************)

(* get_value: "Evaluate the rest of the path" *)
RECURSIVE get_path(_, _, _, _, _, _)
get_path(h, val, path, i, keys, kpos) ==
  IF i > Len(path) THEN [res |-> "Ok", val |-> val]
  ELSE LET accessor == path[i]
           got == CASE accessor.c = "Name" -> get_by_key(h, val, accessor.name)
                    [] accessor.c = "Index" -> get_by_index(h, val, accessor.index)
                    [] accessor.c = "Expression" ->
                         IF keys[kpos].t = "int"
                         THEN get_by_index(h, val, keys[kpos].n)
                         ELSE get_by_key(h, val, to_string(keys[kpos]))
       IN IF got.res # "Ok" THEN got
          ELSE get_path(h, got.val, path, i + 1, keys,
                        IF accessor.c = "Expression" THEN kpos + 1 ELSE kpos)

(* get_value: "Get the root variable", then the rest of the path. *)
get_value(h, layers, glob, path, keys, for_callee) ==
  IF Len(path) = 0 \/ path[1].c = "Index" THEN [res |-> "Panic", val |-> Empty]
  ELSE LET root == IF path[1].c = "Name"
                   THEN get_local(layers, glob, path[1].name, for_callee)
                   ELSE get_local(layers, glob, to_string(keys[1]), for_callee)
       IN IF root.res # "Ok" THEN root
          ELSE get_path(h, root.val, path, 2, keys,
                        IF path[1].c = "Expression" THEN 2 ELSE 1)

(* SetterKey *)
SetterKeyRef(key) == [kind |-> "KeyRef", key |-> key, index |-> 0]
SetterKeyString(key) == [kind |-> "KeyString", key |-> key, index |-> 0]
SetterIndex(index) == [kind |-> "Index", key |-> "", index |-> index]

(* The setter target: None, or Some(val). *)
NoTarget == [some |-> FALSE, val |-> Empty]
SomeTarget(val) == [some |-> TRUE, val |-> val]

(* set_value: the setter key of a component after the first. *)
setter_key_of(accessor, keys, kpos) ==
  CASE accessor.c = "Name" -> SetterKeyRef(accessor.name)
    [] accessor.c = "Index" -> SetterIndex(accessor.index)
    [] accessor.c = "Expression" ->
         IF keys[kpos].t = "int" THEN SetterIndex(keys[kpos].n)
         ELSE SetterKeyString(to_string(keys[kpos]))

(* set_value: "Update setter target by keying off setter_key" *)
read_target(h, layers, glob, target, key) ==
  IF ~target.some
  THEN IF key.kind = "Index" THEN [res |-> "Panic", val |-> Empty]
       ELSE get_local(layers, glob, key.key, FALSE)
  ELSE IF key.kind = "Index" THEN get_by_index(h, target.val, key.index)
       ELSE get_by_key(h, target.val, key.key)

(* set_value: "Evaluate the path": the target and the key to write to. *)
RECURSIVE set_path(_, _, _, _, _, _, _, _, _)
set_path(h, layers, glob, path, i, target, key, keys, kpos) ==
  IF i > Len(path) THEN [res |-> "Ok", target |-> target, key |-> key]
  ELSE LET got == read_target(h, layers, glob, target, key)
       IN IF got.res # "Ok" THEN [res |-> got.res, target |-> target, key |-> key]
          ELSE set_path(h, layers, glob, path, i + 1, SomeTarget(got.val),
                        setter_key_of(path[i], keys, kpos), keys,
                        IF path[i].c = "Expression" THEN kpos + 1 ELSE kpos)

(* set_value after the pops: the locals, globals and heap it leaves. *)
set_value(h, layers, glob, path, auto_def, setter_value, keys) ==
  LET unchanged(res) == [res |-> res, layers |-> layers, glob |-> glob, heap |-> h]
  IN IF Len(path) = 0 \/ path[1].c = "Index" THEN unchanged("Panic")
     ELSE LET first == IF path[1].c = "Name" THEN SetterKeyRef(path[1].name)
                       ELSE SetterKeyString(to_string(keys[1]))
              walk == set_path(h, layers, glob, path, 2, NoTarget, first, keys,
                               IF path[1].c = "Expression" THEN 2 ELSE 1)
          IN IF walk.res # "Ok" THEN unchanged(walk.res)
             ELSE IF ~walk.target.some
             THEN IF auto_def
                  THEN [res |-> "Ok", glob |-> glob, heap |-> h,
                        layers |-> define(layers, walk.key.key, setter_value)]
                  ELSE LET set == set_local(layers, glob, walk.key.key, setter_value)
                       IN [res |-> set.res, layers |-> set.layers, glob |-> set.glob,
                           heap |-> h]
             ELSE LET set == IF walk.key.kind = "Index"
                             THEN set_by_index(h, walk.target.val, walk.key.index,
                                               setter_value)
                             ELSE set_by_key(h, walk.target.val, walk.key.key,
                                             setter_value)
                  IN [res |-> set.res, layers |-> layers, glob |-> glob,
                      heap |-> set.heap]

(***************************************************************************)
(* Frames, intents and syntax tree nodes (runtime.rs, runtime/stack.rs)    *)
(*                                                                         *)
(* A variable access path (VarAccessPath) is a sequence of components      *)
(* [c, name, index, block]: a "Name", an "Index", or an "Expression", the  *)
(* dynamic key whose block holds the element sequences to evaluate.        *)
(*                                                                         *)
(* A node is [k, n, id, args, params, path, pairs, flag]: "Integer" writes *)
(* the integer n; "Fragment" writes the text id; "EmptyVal" writes Empty;  *)
(* "VarDef" defines id, with the initialiser args[1] if args is not empty; *)
(* "Closure" writes a function with the parameters params (n names the     *)
(* function in this model); "Block" holds the element sequences args;      *)
(* "FuncCall" calls the function at path with the argument sequences       *)
(* args; "AnonFuncCall" calls the value of the sequence args[1] with the   *)
(* argument sequences after it; "VarGet" reads path; "VarSet" writes the   *)
(* value of the sequence args[1] to path; "FuncDef" defines at path the    *)
(* function n with the parameters params; "ListInit" builds a list of the  *)
(* values of the sequences args; "MapInit" builds a map of pairs, each     *)
(* [dynamic, key, block, val]: a static key or the block of a dynamic one, *)
(* and the value sequence. flag is the print flag of a block or a call:    *)
(* "None", "Hint" or "Sink".                                               *)
(***************************************************************************)

NameKey(name) == [c |-> "Name", name |-> name, index |-> 0, block |-> <<>>]
IndexKey(index) == [c |-> "Index", name |-> "", index |-> index, block |-> <<>>]
ExpressionKey(elements) ==
  [c |-> "Expression", name |-> "", index |-> 0, block |-> elements]

(* VarAccessPath::dynamic_keys: the blocks of the path's dynamic keys, in  *)
(* path order.                                                             *)
dynamic_keys(path) ==
  LET at == {i \in 1..Len(path) : path[i].c = "Expression"}
      nth(r) == CHOOSE i \in at : Cardinality({j \in at : j <= i}) = r
  IN [r \in 1..Cardinality(at) |-> path[nth(r)].block]

NoNode ==
  [k |-> "", n |-> 0, id |-> "", args |-> <<>>, params |-> <<>>,
   path |-> <<>>, pairs |-> <<>>, flag |-> "None"]

(* A block or a call with the print flag Hint or Sink. *)
Flagged(node, flag) == [node EXCEPT !.flag = flag]

IntegerNode(k) == [NoNode EXCEPT !.k = "Integer", !.n = k]
FragmentNode(text) == [NoNode EXCEPT !.k = "Fragment", !.id = text]
EmptyValNode == [NoNode EXCEPT !.k = "EmptyVal"]
VarDefNode(id, val_expr) == [NoNode EXCEPT !.k = "VarDef", !.id = id, !.args = val_expr]
ClosureNode(fid, params) == [NoNode EXCEPT !.k = "Closure", !.n = fid, !.params = params]
BlockNode(elements) == [NoNode EXCEPT !.k = "Block", !.args = elements]
FuncCallAt(path, args) == [NoNode EXCEPT !.k = "FuncCall", !.path = path, !.args = args]
FuncCallNode(id, args) == FuncCallAt(<<NameKey(id)>>, args)
AnonFuncCallNode(expr, args) ==
  [NoNode EXCEPT !.k = "AnonFuncCall", !.args = <<expr>> \o args]
VarGetNode(path) == [NoNode EXCEPT !.k = "VarGet", !.path = path]
VarSetNode(path, val_expr) ==
  [NoNode EXCEPT !.k = "VarSet", !.path = path, !.args = <<val_expr>>]
FuncDefNode(path, fid, params) ==
  [NoNode EXCEPT !.k = "FuncDef", !.path = path, !.n = fid, !.params = params]
ListInitNode(elements) == [NoNode EXCEPT !.k = "ListInit", !.args = elements]
MapInitNode(pairs) == [NoNode EXCEPT !.k = "MapInit", !.pairs = pairs]

(* The pairs of a map initialiser: (MapKeyExpr::Static(key), val_expr) and *)
(* (MapKeyExpr::Dynamic(block), val_expr).                                 *)
StaticPair(key, val_expr) ==
  [dynamic |-> FALSE, key |-> key, block |-> <<>>, val |-> val_expr]
DynamicPair(elements, val_expr) ==
  [dynamic |-> TRUE, key |-> "", block |-> elements, val |-> val_expr]

(* SetterValueSource::FromExpression and SetterValueSource::FromValue *)
FromExpression(expr) == [from |-> "Expression", expr |-> expr, val |-> Empty]
FromValue(val) == [from |-> "Value", expr |-> <<>>, val |-> val]

(* An intent is a record of one shape; each kind uses the fields of its    *)
(* variant of Intent. DefVar keeps its vname in id.                        *)
NoIntent ==
  [k |-> "", id |-> "", override_print |-> FALSE, arg_exprs |-> <<>>,
   eval_count |-> 0, path |-> <<>>, dynamic_key_count |-> 0, expr_count |-> 0,
   pending_exprs |-> <<>>, auto_def |-> FALSE, val_source |-> FromValue(Empty),
   init |-> <<>>, index |-> 0, list |-> <<>>, pair_index |-> 0, map |-> <<>>,
   flag |-> "None"]

PrintLastOutput == [NoIntent EXCEPT !.k = "PrintLastOutput"]
GetValueIntent(path, dynamic_key_count, override_print) ==
  [NoIntent EXCEPT !.k = "GetValue", !.path = path,
                   !.dynamic_key_count = dynamic_key_count,
                   !.override_print = override_print]
BuildDynamicGetterIntent(path, dynamic_key_count, pending_exprs, override_print) ==
  [NoIntent EXCEPT !.k = "BuildDynamicGetter", !.path = path,
                   !.dynamic_key_count = dynamic_key_count,
                   !.pending_exprs = pending_exprs,
                   !.override_print = override_print]
DefVarIntent(vname) == [NoIntent EXCEPT !.k = "DefVar", !.id = vname]
InvokeIntent(arg_exprs, eval_count, flag) ==
  [NoIntent EXCEPT !.k = "Invoke", !.arg_exprs = arg_exprs, !.eval_count = eval_count,
                   !.flag = flag]
BuildDynamicSetterIntent(path, auto_def, expr_count, pending_exprs, val_source) ==
  [NoIntent EXCEPT !.k = "BuildDynamicSetter", !.path = path, !.auto_def = auto_def,
                   !.expr_count = expr_count, !.pending_exprs = pending_exprs,
                   !.val_source = val_source]
SetValueIntent(path, auto_def, expr_count) ==
  [NoIntent EXCEPT !.k = "SetValue", !.path = path, !.auto_def = auto_def,
                   !.expr_count = expr_count]
BuildListIntent(elements, index, list) ==
  [NoIntent EXCEPT !.k = "BuildList", !.init = elements, !.index = index,
                   !.list = list]
BuildMapIntent(pairs, pair_index, map) ==
  [NoIntent EXCEPT !.k = "BuildMap", !.init = pairs, !.pair_index = pair_index,
                   !.map = map]

(* StackFrame::new *)
StackFrame_new(sequence, has_output) ==
  [sequence |-> sequence, pc |-> 0, started |-> FALSE,
   has_output |-> has_output, output |-> <<>>, intents |-> <<>>]

(* StackFrame::write_value *)
write_value(frame, val) ==
  IF is_empty(val) \/ ~frame.has_output THEN frame
  ELSE [frame EXCEPT !.output = Append(frame.output, val)]

(* OutputWriter::render_value: nothing written renders as Empty, a single  *)
(* value as itself, several values as the string of their texts.           *)
RECURSIVE concat_texts(_)
concat_texts(output) ==
  IF Len(output) = 0 THEN ""
  ELSE to_string(Head(output)) \o concat_texts(Tail(output))

render_value(output) ==
  IF Len(output) = 0 THEN Empty
  ELSE IF Len(output) = 1 THEN output[1]
  ELSE StringVal(concat_texts(output))

(* StackFrame::render_output_value: the rendered output of a frame that    *)
(* has an output, None of one that has not.                                *)
render_output_valueBad(frame) == [some |-> FALSE, val |-> Empty]
render_output_value(frame) ==
  [some |-> frame.has_output, val |-> render_value(frame.output)]

(* StackFrame::is_done and StackFrame::seq_next: the frame after the call  *)
(* and whether a node was returned (it is sequence[pc + 1] of that frame). *)
frame_is_done(frame) == frame.pc >= Len(frame.sequence)

seq_next(frame) ==
  IF frame_is_done(frame) THEN [some |-> FALSE, frame |-> frame]
  ELSE LET f == IF frame.started THEN [frame EXCEPT !.pc = frame.pc + 1]
                ELSE [frame EXCEPT !.started = TRUE]
       IN [some |-> f.pc < Len(f.sequence), frame |-> f]

(* push_intent_front, push_intent_back *)
push_intent_front(frame, intent) == [frame EXCEPT !.intents = <<intent>> \o frame.intents]
push_intent_back(frame, intent) == [frame EXCEPT !.intents = Append(frame.intents, intent)]
(* take_intent taking from the back of the queue *)
take_intentBad(frame) ==
  [frame EXCEPT !.intents = SubSeq(frame.intents, 1, Len(frame.intents) - 1)]
(* the frame after take_intent, which returns the intent at the front *)
take_intent(frame) == [frame EXCEPT !.intents = Tail(frame.intents)]

Top == call_stack[Len(call_stack)]
SetTop(frame) == [call_stack EXCEPT ![Len(call_stack)] = frame]

RunningBad == Len(call_stack) > 0

Running == vm_result.status = "running" /\ Len(call_stack) > 0
HasIntent(kind) == Running /\ Len(Top.intents) > 0 /\ Top.intents[1].k = kind

Fail(err) ==
  /\ vm_result' = [status |-> "error", err |-> err, out |-> Empty]
  /\ UNCHANGED <<selVars, blkVars, resVars, parseVars, stack_ops, program, heap, call_stack, locals, globals, val_stack, invoked>>

(* A panic of the host program: the run ends without a result. *)
Panic(what) ==
  /\ vm_result' = [status |-> "panic", err |-> what, out |-> Empty]
  /\ UNCHANGED <<selVars, blkVars, resVars, parseVars, stack_ops, program, heap, call_stack, locals, globals, val_stack, invoked>>

(* The body of a user function, a block of one element. The function with  *)
(* id 60 is [$f]{[f]}, the one with id 61 is [$f: a?; b?; c?]{[f: [f]; 1; 1]}; *)
(* every other function writes 100 + its id.                               *)
BodyElements(func) ==
  CASE func.id = 60 -> << <<FuncCallNode("f", <<>>)>> >>
    [] func.id = 61 ->
         << <<FuncCallNode("f", << <<FuncCallNode("f", <<>>)>>,
                                   <<IntegerNode(1)>>, <<IntegerNode(1)>> >>)>> >>
    [] OTHER -> << <<IntegerNode(100 + func.id)>> >>

(* What the VM is in the specifications that run no program. *)
VmIdle ==
  /\ program = <<>>
  /\ call_stack = <<>>
  /\ locals = <<>>
  /\ globals = <<>>
  /\ val_stack = <<>>
  /\ vm_result = [status |-> "idle", err |-> "", out |-> Empty]
  /\ invoked = <<>>
  /\ stack_ops = <<>>
  /\ heap = <<>>

(* VM::run: "Push the program's root sequence onto the call stack" *)
RunStart ==
  /\ vm_result.status = "idle"
  /\ call_stack' = <<StackFrame_new(program, TRUE)>>
  /\ locals' = << <<>> >>
  /\ vm_result' = [vm_result EXCEPT !.status = "running"]
  /\ UNCHANGED <<selVars, blkVars, resVars, parseVars, stack_ops, program, heap, globals, val_stack, invoked>>

(* VM::push_frame / CallStack::push_frame: the frame and its scope layer. *)
PushFrameBad(stack, sequence, use_output, layer) ==
  /\ call_stack' = Append(stack, StackFrame_new(sequence, use_output))
  /\ locals' = Append(locals, layer)
  /\ UNCHANGED vm_result
PushFrame(stack, sequence, use_output, layer) ==
  /\ IF Len(stack) >= MAX_STACK_SIZE
     THEN /\ vm_result' = [status |-> "error", err |-> "StackOverflow", out |-> Empty]
          /\ call_stack' = stack
          /\ UNCHANGED locals
     ELSE /\ call_stack' = Append(stack, StackFrame_new(sequence, use_output))
          /\ locals' = Append(locals, layer)
          /\ UNCHANGED vm_result

(* Whether a block with the print flag block_flag, entered with the flag   *)
(* of the call or accessor that enters it, prints: the outcomes of         *)
(* !PrintFlag::prioritize(block.flag, flag).is_sink(), prioritize giving   *)
(* one of the two flags, None only if both are None.                       *)
is_printing(block_flag, flag) ==
  IF block_flag = "None" /\ flag = "None" THEN {TRUE}
  ELSE {f # "Sink" : f \in {block_flag, flag} \ {"None"}}

(* push_block_frame with an output that the print flags do not decide. *)
PushBlockFrameBad(frame, elements, block_flag, override_print, layer, flag) ==
  \E i \in next_usize(Len(elements)), printing \in BOOLEAN :
    PushFrame(SetTop(IF printing /\ ~override_print
                     THEN push_intent_front(frame, PrintLastOutput)
                     ELSE frame),
              elements[i + 1], printing, layer)

(* VM::push_block_frame: the element is drawn from the RNG; a printing     *)
(* block gives the current frame PrintLastOutput unless override_print,    *)
(* and its frame an output.                                                *)
PushBlockFrame(frame, elements, block_flag, override_print, layer, flag) ==
  \E i \in next_usize(Len(elements)), printing \in is_printing(block_flag, flag) :
    PushFrame(SetTop(IF printing /\ ~override_print
                     THEN push_intent_front(frame, PrintLastOutput)
                     ELSE frame),
              elements[i + 1], printing, layer)

(* The sequence loop of VM::run, one action per kind of node. *)
NodeIs(kind) ==
  /\ Running /\ Len(Top.intents) = 0
  /\ seq_next(Top).some
  /\ seq_next(Top).frame.sequence[seq_next(Top).frame.pc + 1].k = kind

NextNode == seq_next(Top).frame.sequence[seq_next(Top).frame.pc + 1]

NodeInteger ==
  /\ NodeIs("Integer")
  /\ call_stack' = SetTop(write_value(seq_next(Top).frame, IntVal(NextNode.n)))
  /\ UNCHANGED <<selVars, blkVars, resVars, parseVars, stack_ops, program, heap, locals, globals, val_stack, vm_result, invoked>>

NodeClosure ==
  /\ NodeIs("Closure")
  /\ call_stack' = SetTop(write_value(seq_next(Top).frame,
                            FuncVal(RantFunction_new(NextNode.n, NextNode.params, FALSE))))
  /\ UNCHANGED <<selVars, blkVars, resVars, parseVars, stack_ops, program, heap, locals, globals, val_stack, vm_result, invoked>>

NodeBlock ==
  /\ NodeIs("Block")
  /\ PushBlockFrame(seq_next(Top).frame, NextNode.args, NextNode.flag, FALSE, <<>>,
                    "None")
  /\ UNCHANGED <<selVars, blkVars, resVars, parseVars, stack_ops, program, heap, globals, val_stack, invoked>>

NodeVarDef ==
  /\ NodeIs("VarDef")
  /\ IF Len(NextNode.args) > 0
     THEN /\ PushFrame(SetTop(push_intent_front(seq_next(Top).frame,
                                                 DefVarIntent(NextNode.id))),
                       NextNode.args, TRUE, <<>>)
          /\ UNCHANGED <<selVars, blkVars, resVars, parseVars, stack_ops, program, heap, globals, val_stack, invoked>>
     ELSE /\ call_stack' = SetTop(seq_next(Top).frame)
          /\ locals' = define(locals, NextNode.id, Empty)
          /\ UNCHANGED <<selVars, blkVars, resVars, parseVars, stack_ops, program, heap, globals, val_stack, vm_result, invoked>>

NodeFuncCall ==
  /\ NodeIs("FuncCall")
  /\ call_stack' =
       SetTop(push_intent_back(
                push_intent_front(
                  seq_next(Top).frame,
                  IF Len(dynamic_keys(NextNode.path)) = 0
                  THEN GetValueIntent(NextNode.path, 0, TRUE)
                  ELSE BuildDynamicGetterIntent(NextNode.path,
                                                Len(dynamic_keys(NextNode.path)),
                                                dynamic_keys(NextNode.path), TRUE)),
                InvokeIntent(NextNode.args, 0, NextNode.flag)))
  /\ UNCHANGED <<selVars, blkVars, resVars, parseVars, stack_ops, program, heap, locals, globals, val_stack, vm_result, invoked>>

(* The intent loop of VM::run, one action per intent handler. *)
IntentPrintLastOutputBad ==
  /\ HasIntent("PrintLastOutput")
  /\ Len(val_stack) > 0
  /\ call_stack' = SetTop(write_value(take_intent(Top), val_stack[Len(val_stack)]))
  /\ UNCHANGED <<selVars, blkVars, resVars, parseVars, stack_ops, program, heap, locals, globals, val_stack, vm_result, invoked>>

IntentPrintLastOutput ==
  /\ HasIntent("PrintLastOutput")
  /\ IF Len(val_stack) = 0
     THEN Fail("StackUnderflow")
     ELSE /\ call_stack' = SetTop(write_value(take_intent(Top), val_stack[Len(val_stack)]))
          /\ val_stack' = SubSeq(val_stack, 1, Len(val_stack) - 1)
          /\ UNCHANGED <<selVars, blkVars, resVars, parseVars, stack_ops, program, heap, locals, globals, vm_result, invoked>>

IntentDefVar ==
  /\ HasIntent("DefVar")
  /\ IF Len(val_stack) = 0
     THEN Fail("StackUnderflow")
     ELSE /\ call_stack' = SetTop(take_intent(Top))
          /\ locals' = define(locals, Top.intents[1].id, val_stack[Len(val_stack)])
          /\ val_stack' = SubSeq(val_stack, 1, Len(val_stack) - 1)
          /\ UNCHANGED <<selVars, blkVars, resVars, parseVars, stack_ops, program, heap, globals, vm_result, invoked>>

(* Intent::GetValue: VM::get_value. The evaluated dynamic keys are popped, *)
(* the first popped being the first the walk takes.                        *)
IntentGetValue ==
  /\ HasIntent("GetValue")
  /\ LET intent == Top.intents[1]
         count == intent.dynamic_key_count
         depth == Len(val_stack)
         keys == [i \in 1..count |-> val_stack[depth - i + 1]]
         rest == SubSeq(val_stack, 1, depth - count)
         got == get_value(heap, locals, globals, intent.path, keys,
                          intent.override_print)
     IN IF depth < count
        THEN Fail("StackUnderflow")
        ELSE IF got.res = "Panic"
        THEN Panic("unreachable")
        ELSE IF got.res # "Ok"
        THEN Fail(got.res)
        ELSE IF intent.override_print
             THEN IF Len(rest) < MAX_STACK_SIZE
                  THEN /\ val_stack' = Append(rest, got.val)
                       /\ call_stack' = SetTop(take_intent(Top))
                       /\ UNCHANGED <<selVars, blkVars, resVars, parseVars, stack_ops, program, heap, locals, globals, vm_result, invoked>>
                  ELSE Fail("StackOverflow")
             ELSE /\ call_stack' = SetTop(write_value(take_intent(Top), got.val))
                  /\ val_stack' = rest
                  /\ UNCHANGED <<selVars, blkVars, resVars, parseVars, stack_ops, program, heap, locals, globals, vm_result, invoked>>

(* Intent::Invoke, "First, evaluate all arguments": one argument frame. *)
IntentInvokeEval ==
  /\ HasIntent("Invoke")
  /\ LET intent == Top.intents[1]
         n == Len(intent.arg_exprs)
     IN /\ intent.eval_count < n
        /\ PushFrame(SetTop(push_intent_front(take_intent(Top),
                              InvokeIntent(intent.arg_exprs, intent.eval_count + 1,
                                           intent.flag))),
                     intent.arg_exprs[(n - intent.eval_count - 1) + 1], TRUE, <<>>)
        /\ UNCHANGED <<selVars, blkVars, resVars, parseVars, stack_ops, program, heap, globals, val_stack, invoked>>

(* Intent::Invoke once the arguments are evaluated: pop them and the       *)
(* function, verify the signature and call. invoked records each call      *)
(* attempt: the callee popped, the arguments popped (in pop order), the    *)
(* outcome, the arguments handed to the function and the call stack depth. *)
IntentInvokeCall ==
  /\ HasIntent("Invoke")
  /\ LET intent == Top.intents[1]
         argc == Len(intent.arg_exprs)
         depth == Len(val_stack)
         args == [i \in 1..argc |-> val_stack[depth - i + 1]]
         callee == val_stack[depth - argc]
         func == callee.fn
         checked == verify_args(func, args, Len(heap) + 1)
         attempt(outcome, passed) ==
           [callee |-> callee, args |-> args, outcome |-> outcome,
            passed |-> passed, depth |-> Len(call_stack)]
     IN /\ intent.eval_count >= argc
        /\ IF depth < argc + 1
           THEN Fail("StackUnderflow")
           ELSE IF ~is_callable(callee)
           THEN /\ vm_result' = [status |-> "error", err |-> "CannotInvokeValue",
                                 out |-> Empty]
                /\ invoked' = Append(invoked, attempt("CannotInvokeValue", <<>>))
                /\ UNCHANGED <<selVars, blkVars, resVars, parseVars, stack_ops, program, heap, call_stack, locals, globals, val_stack>>
           ELSE IF checked.res = "ArgumentMismatch"
           THEN /\ vm_result' = [status |-> "error", err |-> "ArgumentMismatch",
                                 out |-> Empty]
                /\ invoked' = Append(invoked, attempt("ArgumentMismatch", <<>>))
                /\ UNCHANGED <<selVars, blkVars, resVars, parseVars, stack_ops, program, heap, call_stack, locals, globals, val_stack>>
           ELSE IF checked.res = "Panic"
           THEN /\ vm_result' = [status |-> "panic", err |-> "Vec::drain", out |-> Empty]
                /\ invoked' = Append(invoked, attempt("Panic", <<>>))
                /\ UNCHANGED <<selVars, blkVars, resVars, parseVars, stack_ops, program, heap, call_stack, locals, globals, val_stack>>
           ELSE /\ val_stack' = SubSeq(val_stack, 1, depth - argc - 1)
                /\ invoked' = Append(invoked, attempt("Called", checked.args))
                /\ heap' = heap \o checked.made
                /\ IF is_native(func)
                   THEN /\ call_stack' = SetTop(take_intent(Top))
                        /\ UNCHANGED <<locals, vm_result>>
                   ELSE PushBlockFrame(take_intent(Top), BodyElements(func), "None",
                                       FALSE, func_locals(func, checked.args),
                                       intent.flag)
                /\ UNCHANGED <<selVars, blkVars, resVars, parseVars, stack_ops, program, globals>>

(* VM::run: "Pop frame once its sequence is finished" *)
PopFrame ==
  /\ Running /\ Len(Top.intents) = 0
  /\ ~seq_next(Top).some
  /\ call_stack' = SubSeq(call_stack, 1, Len(call_stack) - 1)
  /\ locals' = SubSeq(locals, 1, Len(locals) - 1)
  /\ IF render_output_value(Top).some
     THEN IF Len(val_stack) < MAX_STACK_SIZE
          THEN /\ val_stack' = Append(val_stack, render_output_value(Top).val)
               /\ UNCHANGED vm_result
          ELSE /\ vm_result' = [status |-> "error", err |-> "StackOverflow", out |-> Empty]
               /\ UNCHANGED val_stack
     ELSE UNCHANGED <<val_stack, vm_result>>
  /\ UNCHANGED <<selVars, blkVars, resVars, parseVars, stack_ops, program, heap, globals, invoked>>

(* VM::run: "Once stack is empty, program is done" *)
Finish ==
  /\ vm_result.status = "running" /\ Len(call_stack) = 0
  /\ vm_result' = [status |-> "ok", err |-> "",
                   out |-> StringVal(to_string(IF Len(val_stack) > 0
                                               THEN val_stack[Len(val_stack)]
                                               ELSE Empty))]
  /\ val_stack' = IF Len(val_stack) > 0
                  THEN SubSeq(val_stack, 1, Len(val_stack) - 1) ELSE val_stack
  /\ UNCHANGED <<selVars, blkVars, resVars, parseVars, stack_ops, program, heap, call_stack, locals, globals, invoked>>

(***************************************************************************)
(* The rest of VM::run: fragments, accessors, setters, function            *)
(* definitions, anonymous calls and collection initialisers.               *)
(***************************************************************************)

(* push_frame for each of sequences in order (each with an output and no   *)
(* locals of its own), then push_val onto values for each of vals; the     *)
(* first push that does not fit ends the run with StackOverflow.           *)
PushFramesAndValues(stack, values, sequences, vals) ==
  LET nf == Min(Len(sequences), MAX_STACK_SIZE - Min(Len(stack), MAX_STACK_SIZE))
      nv == IF nf = Len(sequences)
            THEN Min(Len(vals), MAX_STACK_SIZE - Min(Len(values), MAX_STACK_SIZE))
            ELSE 0
  IN /\ call_stack' = stack \o [i \in 1..nf |-> StackFrame_new(sequences[i], TRUE)]
     /\ locals' = locals \o [i \in 1..nf |-> <<>>]
     /\ val_stack' = values \o SubSeq(vals, 1, nv)
     /\ vm_result' = IF nf = Len(sequences) /\ nv = Len(vals) THEN vm_result
                     ELSE [status |-> "error", err |-> "StackOverflow", out |-> Empty]

NodeFragment ==
  /\ NodeIs("Fragment")
  /\ call_stack' = SetTop(write_value(seq_next(Top).frame, StringVal(NextNode.id)))
  /\ UNCHANGED <<selVars, blkVars, resVars, parseVars, stack_ops, program, heap, locals, globals, val_stack, vm_result, invoked>>

NodeEmptyVal ==
  /\ NodeIs("EmptyVal")
  /\ call_stack' = SetTop(write_value(seq_next(Top).frame, Empty))
  /\ UNCHANGED <<selVars, blkVars, resVars, parseVars, stack_ops, program, heap, locals, globals, val_stack, vm_result, invoked>>

NodeListInit ==
  /\ NodeIs("ListInit")
  /\ call_stack' = SetTop(push_intent_front(seq_next(Top).frame,
                                            BuildListIntent(NextNode.args, 0, <<>>)))
  /\ UNCHANGED <<selVars, blkVars, resVars, parseVars, stack_ops, program, heap, locals, globals, val_stack, vm_result, invoked>>

NodeMapInit ==
  /\ NodeIs("MapInit")
  /\ call_stack' = SetTop(push_intent_front(seq_next(Top).frame,
                                            BuildMapIntent(NextNode.pairs, 0, <<>>)))
  /\ UNCHANGED <<selVars, blkVars, resVars, parseVars, stack_ops, program, heap, locals, globals, val_stack, vm_result, invoked>>

NodeVarGet ==
  /\ NodeIs("VarGet")
  /\ call_stack' =
       SetTop(push_intent_front(
                seq_next(Top).frame,
                IF Len(dynamic_keys(NextNode.path)) = 0
                THEN GetValueIntent(NextNode.path, 0, FALSE)
                ELSE BuildDynamicGetterIntent(NextNode.path,
                                              Len(dynamic_keys(NextNode.path)),
                                              dynamic_keys(NextNode.path), FALSE)))
  /\ UNCHANGED <<selVars, blkVars, resVars, parseVars, stack_ops, program, heap, locals, globals, val_stack, vm_result, invoked>>

NodeVarSet ==
  /\ NodeIs("VarSet")
  /\ IF Len(dynamic_keys(NextNode.path)) = 0
     THEN /\ PushFrame(SetTop(push_intent_front(seq_next(Top).frame,
                                                 SetValueIntent(NextNode.path, FALSE, 0))),
                       NextNode.args[1], TRUE, <<>>)
          /\ UNCHANGED <<selVars, blkVars, resVars, parseVars, stack_ops, program, heap, globals, val_stack, invoked>>
     ELSE /\ call_stack' =
               SetTop(push_intent_front(
                        seq_next(Top).frame,
                        BuildDynamicSetterIntent(NextNode.path, FALSE,
                                                 Len(dynamic_keys(NextNode.path)),
                                                 dynamic_keys(NextNode.path),
                                                 FromExpression(NextNode.args[1]))))
          /\ UNCHANGED <<selVars, blkVars, resVars, parseVars, stack_ops, program, heap, locals, globals, val_stack, vm_result, invoked>>

NodeFuncDef ==
  /\ NodeIs("FuncDef")
  /\ call_stack' =
       SetTop(push_intent_front(
                seq_next(Top).frame,
                BuildDynamicSetterIntent(
                  NextNode.path, TRUE, Len(dynamic_keys(NextNode.path)),
                  dynamic_keys(NextNode.path),
                  FromValue(FuncVal(RantFunction_new(NextNode.n, NextNode.params,
                                                     FALSE))))))
  /\ UNCHANGED <<selVars, blkVars, resVars, parseVars, stack_ops, program, heap, locals, globals, val_stack, vm_result, invoked>>

NodeAnonFuncCall ==
  /\ NodeIs("AnonFuncCall")
  /\ PushFrame(SetTop(push_intent_front(seq_next(Top).frame,
                                        InvokeIntent(Tail(NextNode.args), 0,
                                                     NextNode.flag))),
               NextNode.args[1], TRUE, <<>>)
  /\ UNCHANGED <<selVars, blkVars, resVars, parseVars, stack_ops, program, heap, globals, val_stack, invoked>>

(* Intent::BuildDynamicGetter: the last pending key is evaluated next. *)
IntentBuildDynamicGetter ==
  /\ HasIntent("BuildDynamicGetter")
  /\ LET intent == Top.intents[1]
         pending == intent.pending_exprs
         left == SubSeq(pending, 1, Len(pending) - 1)
         getter == GetValueIntent(intent.path, intent.dynamic_key_count,
                                  intent.override_print)
     IN IF Len(pending) > 0
        THEN /\ PushBlockFrame(
                  push_intent_front(
                    take_intent(Top),
                    IF Len(left) = 0 THEN getter
                    ELSE BuildDynamicGetterIntent(intent.path, intent.dynamic_key_count,
                                                  left, intent.override_print)),
                  pending[Len(pending)], "None", TRUE, <<>>, "None")
             /\ UNCHANGED <<selVars, blkVars, resVars, parseVars, stack_ops, program, heap, globals, val_stack, invoked>>
        ELSE /\ call_stack' = SetTop(push_intent_front(take_intent(Top), getter))
             /\ UNCHANGED <<selVars, blkVars, resVars, parseVars, stack_ops, program, heap, locals, globals, val_stack, vm_result, invoked>>

(* Intent::BuildDynamicSetter: the last pending key is evaluated next;     *)
(* with the last of them (or with none) SetValue is queued and the setter  *)
(* value is prepared: its frame is pushed, or the value itself.            *)
IntentBuildDynamicSetter ==
  /\ HasIntent("BuildDynamicSetter")
  /\ LET intent == Top.intents[1]
         pending == intent.pending_exprs
         left == SubSeq(pending, 1, Len(pending) - 1)
         setter == SetValueIntent(intent.path, intent.auto_def, intent.expr_count)
         source == intent.val_source
     IN IF Len(left) > 0
        THEN /\ PushBlockFrame(
                  push_intent_front(
                    take_intent(Top),
                    BuildDynamicSetterIntent(intent.path, intent.auto_def,
                                             intent.expr_count, left, source)),
                  pending[Len(pending)], "None", TRUE, <<>>, "None")
             /\ UNCHANGED <<selVars, blkVars, resVars, parseVars, stack_ops, program, heap, globals, val_stack, invoked>>
        ELSE /\ \E key \in IF Len(pending) = 0 THEN {<<>>}
                           ELSE {<<pending[1][i + 1]>> : i \in next_usize(Len(pending[1]))} :
                  PushFramesAndValues(
                    SetTop(push_intent_front(take_intent(Top), setter)), val_stack,
                    key \o (IF source.from = "Expression" THEN <<source.expr>> ELSE <<>>),
                    IF source.from = "Value" THEN <<source.val>> ELSE <<>>)
             /\ UNCHANGED <<selVars, blkVars, resVars, parseVars, stack_ops, program, heap, globals, invoked>>

(* Intent::SetValue: VM::set_value. The setter value is popped first, then *)
(* the evaluated dynamic keys, which the walk takes last popped first.     *)
IntentSetValue ==
  /\ HasIntent("SetValue")
  /\ LET intent == Top.intents[1]
         count == intent.expr_count
         depth == Len(val_stack)
         setter_value == val_stack[depth]
         keys == [i \in 1..count |-> val_stack[depth - count + i - 1]]
         set == set_value(heap, locals, globals, intent.path, intent.auto_def,
                          setter_value, keys)
     IN IF depth < count + 1
        THEN Fail("StackUnderflow")
        ELSE IF set.res = "Panic"
        THEN Panic("unreachable")
        ELSE IF set.res # "Ok"
        THEN Fail(set.res)
        ELSE /\ call_stack' = SetTop(take_intent(Top))
             /\ val_stack' = SubSeq(val_stack, 1, depth - count - 1)
             /\ locals' = set.layers
             /\ globals' = set.glob
             /\ heap' = set.heap
             /\ UNCHANGED <<selVars, blkVars, resVars, parseVars, stack_ops, program, vm_result, invoked>>

(* Intent::BuildList: the value of the element evaluated last is popped    *)
(* and added; the complete list is written, else the next element's frame  *)
(* is pushed.                                                              *)
IntentBuildList ==
  /\ HasIntent("BuildList")
  /\ LET intent == Top.intents[1]
         index == intent.index
         depth == Len(val_stack)
         list == IF index > 0 THEN Append(intent.list, val_stack[depth])
                 ELSE intent.list
         rest == IF index > 0 THEN SubSeq(val_stack, 1, depth - 1) ELSE val_stack
     IN IF index > 0 /\ depth = 0
        THEN Fail("StackUnderflow")
        ELSE IF index >= Len(intent.init)
        THEN /\ call_stack' = SetTop(write_value(take_intent(Top),
                                                 ListVal(Len(heap) + 1)))
             /\ heap' = Append(heap, ListObj(list))
             /\ val_stack' = rest
             /\ UNCHANGED <<selVars, blkVars, resVars, parseVars, stack_ops, program, locals, globals, vm_result, invoked>>
        ELSE /\ PushFrame(SetTop(push_intent_front(
                                   take_intent(Top),
                                   BuildListIntent(intent.init, index + 1, list))),
                          intent.init[index + 1], TRUE, <<>>)
             /\ val_stack' = rest
             /\ UNCHANGED <<selVars, blkVars, resVars, parseVars, stack_ops, program, heap, globals, invoked>>

(* Intent::BuildMap: the key (if dynamic) and the value of the pair        *)
(* evaluated last are popped and added; the complete map is written, else  *)
(* the frames of the next pair's key (if dynamic) and value are pushed.    *)
IntentBuildMap ==
  /\ HasIntent("BuildMap")
  /\ LET intent == Top.intents[1]
         pair_index == intent.pair_index
         depth == Len(val_stack)
         prev_pair == intent.init[pair_index]
         pops == IF pair_index = 0 THEN 0 ELSE IF prev_pair.dynamic THEN 2 ELSE 1
         key == IF prev_pair.dynamic THEN to_string(val_stack[depth])
                ELSE prev_pair.key
         val == val_stack[depth - pops + 1]
         map == IF pair_index > 0 THEN raw_set(intent.map, key, val) ELSE intent.map
         rest == SubSeq(val_stack, 1, depth - pops)
     IN IF depth < pops
        THEN Fail("StackUnderflow")
        ELSE IF pair_index >= Len(intent.init)
        THEN /\ call_stack' = SetTop(write_value(take_intent(Top),
                                                 MapVal(Len(heap) + 1)))
             /\ heap' = Append(heap, MapObj(map))
             /\ val_stack' = rest
             /\ UNCHANGED <<selVars, blkVars, resVars, parseVars, stack_ops, program, locals, globals, vm_result, invoked>>
        ELSE /\ LET pair == intent.init[pair_index + 1]
                IN \E key_expr \in IF ~pair.dynamic THEN {<<>>}
                                   ELSE {<<pair.block[i + 1]>> :
                                           i \in next_usize(Len(pair.block))} :
                     PushFramesAndValues(
                       SetTop(push_intent_front(
                                take_intent(Top),
                                BuildMapIntent(intent.init, pair_index + 1, map))),
                       rest, key_expr \o <<pair.val>>, <<>>)
             /\ UNCHANGED <<selVars, blkVars, resVars, parseVars, stack_ops, program, heap, globals, invoked>>

NextVM ==
  \/ RunStart
  \/ NodeInteger
  \/ NodeClosure
  \/ NodeBlock
  \/ NodeVarDef
  \/ NodeFuncCall
  \/ IntentPrintLastOutput
  \/ IntentDefVar
  \/ IntentGetValue
  \/ IntentInvokeEval
  \/ IntentInvokeCall
  \/ PopFrame
  \/ Finish

(***************************************************************************)
(* Programs. Arguments are the literals 1, 2, .. in order, so the value of *)
(* the i-th argument expression is the integer i.                          *)
(***************************************************************************)

ParamNames == <<"a", "b", "c", "d", "e", "g", "h">>

(* The parameter lists the parser accepts: required, then optional, then   *)
(* at most one variadic parameter.                                         *)
ParamList(r, o, v) ==
  LET kinds == [i \in 1..r |-> "Required"] \o [i \in 1..o |-> "Optional"]
               \o (IF v = "none" THEN <<>> ELSE <<v>>)
  IN [i \in 1..Len(kinds) |-> [name |-> ParamNames[i], varity |-> kinds[i]]]

ParamLists ==
  {ParamList(r, o, v) : r \in 0..MaxRequired, o \in 0..MaxOptional,
                        v \in {"none", "VariadicStar", "VariadicPlus"}}

ArgExprs(k) == [i \in 1..k |-> <<IntegerNode(i)>>]

(* The nodes that bind f at nesting level d: nothing, <$f>, <$f = 7>, or   *)
(* <$f = [?: params]{..}> (the function with id d).                        *)
BindNodes(bind, d, params) ==
  CASE bind = "none" -> <<>>
    [] bind = "empty" -> <<VarDefNode("f", <<>>)>>
    [] bind = "int" -> <<VarDefNode("f", <<IntegerNode(7)>>)>>
    [] bind = "func" -> <<VarDefNode("f", <<ClosureNode(d, params)>>)>>

(* The program whose level d = 1 .. depth binds f as binds[d] and then     *)
(* enters a one-element block (the next level) or, innermost, calls        *)
(* [f: 1; ..; argc].                                                       *)
RECURSIVE LevelSeq(_, _, _, _)
LevelSeq(d, binds, params, argc) ==
  BindNodes(binds[d], d, params)
  \o (IF d = Len(binds)
      THEN <<FuncCallNode("f", ArgExprs(argc))>>
      ELSE <<BlockNode(<<LevelSeq(d + 1, binds, params, argc)>>)>>)

Binds == {"none", "empty", "int", "func"}

(* The engine's global f: absent, a non-function, or a function (id 50). *)
GlobalsOf(bind, params, native) ==
  CASE bind = "none" -> <<>>
    [] bind = "int" -> [nm \in {"f"} |-> IntVal(8)]
    [] bind = "func" -> [nm \in {"f"} |-> FuncVal(RantFunction_new(50, params, native))]

InitVM(prog, glob) ==
  /\ program = prog
  /\ globals = glob
  /\ call_stack = <<>>
  /\ locals = <<>>
  /\ val_stack = <<>>
  /\ vm_result = [status |-> "idle", err |-> "", out |-> Empty]
  /\ invoked = <<>>
  /\ stack_ops = <<>>
  /\ heap = <<>>
  /\ sel = Selector_new("Random")
  /\ sel_last = NoCall
  /\ sel_rets = <<>>
  /\ block = NoBlock
  /\ blk_acts = <<>>
  /\ ResIdle
  /\ ParseIdle

(***************************************************************************)
(* Specification SpecCall: the program binds f in the root scope or in the *)
(* globals, to a function of any accepted parameter list (user or native)  *)
(* or to a non-function, and calls it with 0 .. MaxArgs arguments, from    *)
(* the root sequence or from a block in it.                                *)
(***************************************************************************)

InitCall ==
  \E params \in ParamLists, argc \in 0..MaxArgs, in_block \in BOOLEAN,
     local \in {"none", "int", "func"}, global \in {"none", "int", "func"} :
    /\ (local = "none") # (global = "none")
    /\ InitVM(LevelSeq(1, IF in_block THEN <<local, "none">> ELSE <<local>>,
                       params, argc),
              GlobalsOf(global, params, TRUE))

SpecCall == InitCall /\ [][NextVM]_vars

(***************************************************************************)
(* Specification SpecLookup: f is bound, or not, in each of 1 .. MaxDepth  *)
(* nested scopes and in the globals; the innermost scope calls [f: 1].     *)
(* Every function bound takes one required parameter.                      *)
(***************************************************************************)

InitLookup ==
  \E depth \in 1..MaxDepth, global \in {"none", "int", "func"}, native \in BOOLEAN :
    \E binds \in [1..depth -> Binds] :
      InitVM(LevelSeq(1, binds, ParamList(1, 0, "none"), 1),
             GlobalsOf(global, ParamList(1, 0, "none"), native))

SpecLookup == InitLookup /\ [][NextVM]_vars

(***************************************************************************)
(* Unbounded recursion. RecursiveProgram(id) is                            *)
(*   [$f]{[f]} [f]                      (id 60), or                        *)
(*   [$f: a?; b?; c?]{[f: [f]; 1; 1]} [f]   (id 61).                       *)
(***************************************************************************)

RecursiveParams(id) == IF id = 60 THEN <<>> ELSE ParamList(0, 3, "none")

RecursiveProgram(id) ==
  <<VarDefNode("f", <<ClosureNode(id, RecursiveParams(id))>>), FuncCallNode("f", <<>>)>>

RecursiveFunction(id) == FuncVal(RantFunction_new(id, RecursiveParams(id), FALSE))

RecursiveBody(id) == BodyElements(RecursiveFunction(id).fn)[1]

InitRecursion ==
  \E id \in {60, 61} : InitVM(RecursiveProgram(id), <<>>)

(* The state of the run of RecursiveProgram(id) right after its level-th   *)
(* call of f has pushed the frame of f's body. Below that frame lie the    *)
(* root frame, waiting to print, and for every earlier call the body frame *)
(* of f (id 60: waiting to print; id 61: in the middle of its Invoke, with *)
(* f and the two arguments 1 on the value stack) and, for id 61, the frame *)
(* of the argument [f], waiting to print.                                  *)
RootFrame(id) ==
  [StackFrame_new(RecursiveProgram(id), TRUE) EXCEPT
     !.pc = 1, !.started = TRUE, !.intents = <<PrintLastOutput>>]

CallingBody(id) ==
  [StackFrame_new(RecursiveBody(id), TRUE) EXCEPT
     !.started = TRUE,
     !.intents = IF id = 60 THEN <<PrintLastOutput>>
                 ELSE <<InvokeIntent(RecursiveBody(id)[1].args, 3, "None")>>]

ArgumentFrame(id) ==
  [StackFrame_new(RecursiveBody(id)[1].args[1], TRUE) EXCEPT
     !.started = TRUE, !.intents = <<PrintLastOutput>>]

RecursionFrames(id, level) ==
  <<RootFrame(id)>>
  \o (IF id = 60 THEN [j \in 1..(level - 1) |-> CallingBody(id)]
      ELSE [j \in 1..(2 * (level - 1)) |->
              IF j % 2 = 1 THEN CallingBody(id) ELSE ArgumentFrame(id)])
  \o <<StackFrame_new(RecursiveBody(id), TRUE)>>

RecursionLocals(id, level) ==
  LET layer == func_locals(RecursiveFunction(id).fn, <<>>)
  IN << [nm \in {"f"} |-> RecursiveFunction(id)] >>
     \o (IF id = 60 THEN [j \in 1..(level - 1) |-> layer]
         ELSE [j \in 1..(2 * (level - 1)) |-> IF j % 2 = 1 THEN layer ELSE <<>>])
     \o <<layer>>

RecursionValues(id, level) ==
  IF id = 60 THEN <<>>
  ELSE [j \in 1..(3 * (level - 1)) |->
          IF j % 3 = 1 THEN RecursiveFunction(id) ELSE IntVal(1)]

RecursionCalls(id, level) ==
  [i \in 1..level |->
     [callee |-> RecursiveFunction(id), args |-> <<>>, outcome |-> "Called",
      passed |-> <<>>, depth |-> IF id = 60 THEN i ELSE 2 * i - 1]]

AtRecursionLevel(id, level) ==
  /\ program = RecursiveProgram(id)
  /\ globals = <<>>
  /\ call_stack = RecursionFrames(id, level)
  /\ locals = RecursionLocals(id, level)
  /\ val_stack = RecursionValues(id, level)
  /\ vm_result = [status |-> "running", err |-> "", out |-> Empty]
  /\ invoked = RecursionCalls(id, level)
  /\ stack_ops = <<>>
  /\ heap = <<>>

(* The level at which a stack of RecursiveProgram(id) is full: the call    *)
(* stack for id 60, the value stack (three values a level) for id 61.      *)
LastLevel(id) == IF id = 60 THEN MAX_STACK_SIZE - 1 ELSE MAX_STACK_SIZE \div 3 + 1

(* The levels explored: the first MaxClimb and the last MaxClimb. *)
InWindow(id, level) == level <= MaxClimb \/ level >= LastLevel(id) - MaxClimb

InitDeep ==
  /\ \E id \in {60, 61} : AtRecursionLevel(id, LastLevel(id) - MaxClimb)
  /\ sel = Selector_new("Random")
  /\ sel_last = NoCall
  /\ sel_rets = <<>>
  /\ block = NoBlock
  /\ blk_acts = <<>>
  /\ ResIdle
  /\ ParseIdle

(***************************************************************************)
(* Specification SpecStack: the programs of SpecCall, and the recursive    *)
(* programs from their start and from level LastLevel - MaxClimb on. A     *)
(* recursive call is followed only inside the window of levels.            *)
(***************************************************************************)

IsRecursive == Len(program) = 2 /\ program[1].k = "VarDef" /\ Len(program[1].args) = 1
               /\ program[1].args[1].k = "Closure" /\ program[1].args[1].n \in {60, 61}

InvokeInWindow ==
  /\ IntentInvokeCall
  /\ IsRecursive => InWindow(program[1].args[1].n, Len(invoked'))

NextStack ==
  \/ RunStart
  \/ NodeInteger
  \/ NodeClosure
  \/ NodeBlock
  \/ NodeVarDef
  \/ NodeFuncCall
  \/ IntentPrintLastOutput
  \/ IntentDefVar
  \/ IntentGetValue
  \/ IntentInvokeEval
  \/ InvokeInWindow
  \/ PopFrame
  \/ Finish

SpecStack == (InitCall \/ InitRecursion \/ InitDeep) /\ [][NextStack]_vars

(***************************************************************************)
(* Specification SpecRun: programs of two statements, after the text p or  *)
(* nothing. The first defines x as an integer, a list, a map or a          *)
(* function; the second is an accessor, a setter, a function definition, a *)
(* call or an initialiser, whose path holds up to MaxKeys dynamic keys.    *)
(***************************************************************************)

(* The initialisers of x:                                                  *)
(*   3,   (5; @(k = 7)),   @(k = 7; {`d} = 8),   [?: a]{..} (function 1).  *)
RunMap == MapInitNode(<<StaticPair("k", <<IntegerNode(7)>>),
                        DynamicPair(<< <<FragmentNode("d")>> >>, <<IntegerNode(8)>>)>>)

RunList == ListInitNode(<< <<IntegerNode(5)>>,
                           <<MapInitNode(<<StaticPair("k", <<IntegerNode(7)>>)>>)>> >>)

RunInits ==
  {<<IntegerNode(3)>>, <<RunList>>, <<RunMap>>,
   <<ClosureNode(1, ParamList(1, 0, "none"))>>}

(* The sequences of a dynamic key: 0, 1, k, x, <x>, nothing. *)
RunKeys ==
  {<<IntegerNode(0)>>, <<IntegerNode(1)>>, <<FragmentNode("k")>>, <<FragmentNode("x")>>,
   <<VarGetNode(<<NameKey("x")>>)>>, <<>>}

(* The value sequences: 1, 1k, a block of two elements, a sinked block, an *)
(* empty list, nothing.                                                    *)
RunValues ==
  {<<IntegerNode(1)>>, <<IntegerNode(1), FragmentNode("k")>>,
   <<BlockNode(<< <<IntegerNode(0)>>, <<EmptyValNode>> >>)>>,
   <<Flagged(BlockNode(<< <<IntegerNode(0)>> >>), "Sink")>>,
   <<ListInitNode(<<>>)>>, <<>>}

PrintFlag == {"None", "Hint", "Sink"}

(* The sequences of n = 1 .. MaxKeys dynamic keys. *)
RECURSIVE KeyPaths(_)
KeyPaths(n) ==
  IF n = 0 THEN {<<>>}
  ELSE {Append(path, ExpressionKey(<<key>>)) : path \in KeyPaths(n - 1), key \in RunKeys}

RunPaths ==
  {<<NameKey("x")>>, <<NameKey("y")>>,
   <<NameKey("x"), IndexKey(0)>>, <<NameKey("x"), IndexKey(-1)>>,
   <<NameKey("x"), IndexKey(2)>>, <<NameKey("x"), NameKey("k")>>,
   <<NameKey("x"), IndexKey(1), NameKey("k")>>}
  \cup UNION {KeyPaths(n) \cup {<<NameKey("x")>> \o path : path \in KeyPaths(n)} :
                n \in 1..MaxKeys}

(* Collection initialisers of literals: lists of 0 to 3 items; maps with   *)
(* a key given twice, statically and by a dynamic key, either first.       *)
RunCollections ==
  {ListInitNode(<<>>),
   ListInitNode(<< <<IntegerNode(1)>> >>),
   ListInitNode(<< <<IntegerNode(2)>>, <<FragmentNode("k")>>, <<IntegerNode(1)>> >>),
   MapInitNode(<<>>),
   MapInitNode(<<StaticPair("k", <<IntegerNode(7)>>),
                 DynamicPair(<< <<FragmentNode("k")>> >>, <<IntegerNode(8)>>),
                 StaticPair("d", <<FragmentNode("k")>>)>>),
   MapInitNode(<<DynamicPair(<< <<IntegerNode(1)>> >>, <<IntegerNode(8)>>),
                 StaticPair("1", <<IntegerNode(9)>>)>>)}

RunStatements ==
  {VarGetNode(path) : path \in RunPaths}
  \cup {VarSetNode(path, val) : path \in RunPaths, val \in RunValues}
  \cup {FuncDefNode(path, 2, <<>>) : path \in RunPaths}
  \cup {FuncCallAt(path, args) : path \in RunPaths,
                                 args \in {<<>>, << <<IntegerNode(1)>>, <<>> >>}}
  \cup {Flagged(FuncCallAt(<<NameKey("x")>>, << <<IntegerNode(1)>> >>), flag) :
          flag \in PrintFlag}
  \cup {Flagged(AnonFuncCallNode(val, args), flag) :
          val \in {<<VarGetNode(<<NameKey("x")>>)>>, <<>>},
          args \in {<<>>, << <<IntegerNode(1)>> >>}, flag \in PrintFlag}
  \cup {Flagged(BlockNode(<< <<IntegerNode(0)>>, <<Flagged(BlockNode(<< val >>), inner)>> >>),
                 outer) : val \in RunValues, inner \in PrintFlag, outer \in PrintFlag}
  \cup {RunList, RunMap, VarDefNode("x", <<>>)}
  \cup RunCollections

InitRun ==
  \E printed \in BOOLEAN, first \in RunInits, second \in RunStatements :
    InitVM((IF printed THEN <<FragmentNode("p")>> ELSE <<>>)
           \o <<VarDefNode("x", first), second>>, <<>>)

NextRun ==
  \/ NextVM
  \/ NodeFragment
  \/ NodeEmptyVal
  \/ NodeListInit
  \/ NodeMapInit
  \/ NodeVarGet
  \/ NodeVarSet
  \/ NodeFuncDef
  \/ NodeAnonFuncCall
  \/ IntentBuildDynamicGetter
  \/ IntentBuildDynamicSetter
  \/ IntentSetValue
  \/ IntentBuildList
  \/ IntentBuildMap

SpecRun == InitRun /\ [][NextRun]_vars

(***************************************************************************)
(* Specification SpecSel: one selector, called with any element counts.    *)
(* sel_last records the most recent call (its element count, its result    *)
(* and, for an Ok call, the index returned); sel_rets the indices returned *)
(* by the Ok calls, in order.                                              *)
(***************************************************************************)

InitSel ==
  /\ sel \in {Selector_new(m) : m \in SelectorMode}
  /\ sel_last = NoCall
  /\ sel_rets = <<>>
  /\ block = NoBlock
  /\ blk_acts = <<>>
  /\ VmIdle
  /\ ResIdle
  /\ ParseIdle

SelectCall ==
  /\ Len(sel_rets) < MaxCalls
  /\ UNCHANGED <<blkVars, resVars, vmVars, parseVars>>
  /\ \E n \in 0..MaxN :
       \E rng \in RngDraws(sel, n) :
         LET r == select(sel, n, rng.d_init, rng.sh_init, rng.d_step, rng.sh_step)
         IN /\ sel' = r.s
            /\ sel_last' = [n |-> n, res |-> r.res, idx |-> r.idx]
            /\ sel_rets' = IF r.res = "Ok" THEN Append(sel_rets, r.idx) ELSE sel_rets

NextSel == SelectCall

SpecSel == InitSel /\ [][NextSel]_vars

(***************************************************************************)
(* Claims about the selector, checked under SpecSel.                       *)
(***************************************************************************)

(* The indices 0 .. n-1 each occur exactly once in rets[from .. from+n-1]. *)
IsPermutationWindow(rets, from, n) ==
  \A v \in 0..(n - 1) :
    Cardinality({i \in from..(from + n - 1) : rets[i] = v}) = 1

(* C2: every successful select(n) call returns an index i with 0 <= i < n, *)
(* for every mode, every n >= 1 and every RNG stream.                      *)
C2_SelectInRange ==
  /\ sel_last.res = "Ok" =>
       (sel_last.n >= 1 /\ 0 <= sel_last.idx /\ sel_last.idx < sel_last.n)
  /\ \A i \in 1..Len(sel_rets) : 0 <= sel_rets[i] /\ sel_rets[i] < sel.count

C2_Witness ==
  /\ sel.mode = "Reverse" /\ sel.count = 3
  /\ sel_last.res = "Ok" /\ Len(sel_rets) >= 4

(* C3, as claimed: with a Deck selector on n elements every window of n    *)
(* consecutive select calls returns each index of 0 .. n-1 exactly once.   *)
C3_AnyWindowOriginal ==
  (sel.mode = "Deck" /\ is_initialized(sel)) =>
    \A from \in 1..Len(sel_rets) :
      (from + sel.count - 1 <= Len(sel_rets)) =>
        IsPermutationWindow(sel_rets, from, sel.count)

(* C3, amended: with a Deck selector on n elements each pass through the   *)
(* deck, that is the calls k*n+1 .. k*n+n counted from the selector's      *)
(* first call, returns each index of 0 .. n-1 exactly once.                *)
C3_DeckPass ==
  (sel.mode = "Deck" /\ is_initialized(sel)) =>
    \A k \in 0..Len(sel_rets) :
      (k * sel.count + sel.count <= Len(sel_rets)) =>
        IsPermutationWindow(sel_rets, k * sel.count + 1, sel.count)

C3_Witness ==
  /\ sel.mode = "Deck" /\ sel.count = 3 /\ Len(sel_rets) >= 6
  /\ sel_rets[4] # sel_rets[1]

(* The triangle wave 0,1,..,n-1,n-2,..,1,0,1,.. of period 2(n-1), n >= 2.  *)
Tri(k, n) ==
  LET m == k % (2 * (n - 1))
  IN IF m <= n - 1 THEN m ELSE 2 * (n - 1) - m

(* C4: for n >= 2 the k-th index (k = 0,1,..) of a Ping selector is the    *)
(* triangle wave of period 2(n-1) starting forward from 0, and that of a   *)
(* Pong selector is the same wave starting backward from n-1.              *)
C4_PingPongWave ==
  /\ (sel.mode = "Ping" /\ sel.count >= 2) =>
       \A i \in 1..Len(sel_rets) : sel_rets[i] = Tri(i - 1, sel.count)
  /\ (sel.mode = "Pong" /\ sel.count >= 2) =>
       \A i \in 1..Len(sel_rets) :
         sel_rets[i] = (sel.count - 1) - Tri(i - 1, sel.count)

C4_Witness ==
  /\ sel.mode = "Ping" /\ sel.count = 3 /\ Len(sel_rets) >= 6
  /\ sel_rets[3] = 2 /\ sel_rets[5] = 0

(* C5: with a NoDouble selector on n >= 2 elements any two consecutive     *)
(* select calls return different indices.                                  *)
C5_NoDouble ==
  (sel.mode = "NoDouble" /\ sel.count >= 2) =>
    \A i \in 1..(Len(sel_rets) - 1) : sel_rets[i] # sel_rets[i + 1]

C5_Witness ==
  /\ sel.mode = "NoDouble" /\ sel.count = 2 /\ Len(sel_rets) >= 3

(* C6: a select call is rejected exactly when its element count is 0 or,   *)
(* the selector being initialised with count c, differs from c (then with  *)
(* ElementCountMismatch); a rejected call leaves the selector unchanged    *)
(* and returns no index.                                                   *)
C6_RejectedCallStep ==
  LET n == sel_last'.n
      bad == n = 0 \/ (is_initialized(sel) /\ n # sel.count)
  IN /\ bad <=> sel_last'.res # "Ok"
     /\ (is_initialized(sel) /\ n # sel.count) => sel_last'.res = "ElementCountMismatch"
     /\ bad => (sel' = sel /\ sel_rets' = sel_rets)

C6_Rejected == [][C6_RejectedCallStep]_vars

C6_Witness ==
  /\ sel_last.res = "ElementCountMismatch" /\ sel_last.n = 2
  /\ sel.count = 3 /\ Len(sel_rets) >= 1

(***************************************************************************)
(* Specification SpecBlock: one block state, created by push_block from an *)
(* attribute frame, and stepped by next_element. The frame's selector, if  *)
(* any, is fresh or was already used once by another block (selectors are  *)
(* shared references, so that block may have had another element count).   *)
(* blk_acts records what each next_element call returned: "Element" (with  *)
(* the element's index), "Separator", "None" or "Err" (a SelectorError).   *)
(***************************************************************************)

UsedOnce(m, c) ==
  {select(Selector_new(m), c, rng.d_init, rng.sh_init, rng.d_step, rng.sh_step).s :
     rng \in RngDraws(Selector_new(m), c)}

SelectorStates ==
  {Selector_new(m) : m \in SelectorMode}
  \cup UNION {UsedOnce(m, c) : m \in SelectorMode, c \in 1..MaxN}

InitBlock ==
  /\ \E reps \in RepsValues, cv \in {"None", "True", "False"},
        hs \in BOOLEAN, len \in 1..MaxN :
       block = BlockState_new(
                 [AttributeFrame_default EXCEPT !.reps = reps, !.condval = cv,
                                                !.selector = IF hs THEN 1 ELSE 0],
                 len)
  /\ sel \in (IF has_selector(block.attrs) THEN SelectorStates
              ELSE {Selector_new("Random")})
  /\ sel_last = NoCall
  /\ sel_rets = <<>>
  /\ blk_acts = <<>>
  /\ VmIdle
  /\ ResIdle
  /\ ParseIdle

(* The values the RNG delivers to one call of next_element: an index for   *)
(* the default selection, or the draws of the selector; nothing when the   *)
(* call selects no element.                                                *)
NoDraws == [index |-> 0, rng |-> [d_init |-> 0, sh_init |-> <<>>, d_step |-> 0, sh_step |-> <<>>]]

BlockDraws(b, s) ==
  IF is_done(b) \/ ~(b.cur_steps = 0 \/ b.prev_step_separated) THEN {NoDraws}
  ELSE IF ~has_selector(b.attrs)
  THEN {[NoDraws EXCEPT !.index = i] : i \in next_usize(b.elements_len)}
  ELSE {[NoDraws EXCEPT !.rng = rng] : rng \in RngDraws(s, b.elements_len)}

(* BlockState::next_element, the RNG delivering the values draws. *)
NextElementWith(draws) ==
  /\ Len(blk_acts) < MaxActs
  /\ UNCHANGED <<resVars, vmVars, parseVars>>
  /\ IF ~is_done(block)
     THEN IF block.cur_steps = 0 \/ block.prev_step_separated
          THEN LET stepped == [block EXCEPT !.prev_step_separated = FALSE,
                                            !.cur_steps = block.cur_steps + 1]
               IN /\ block' = stepped
                  /\ IF ~has_selector(block.attrs)
                     THEN /\ blk_acts' = Append(blk_acts,
                                                [a |-> "Element", i |-> draws.index])
                          /\ UNCHANGED selVars
                     ELSE LET rng == draws.rng
                              r == select(sel, block.elements_len, rng.d_init,
                                          rng.sh_init, rng.d_step, rng.sh_step)
                          IN /\ sel' = r.s
                             /\ sel_last' = [n |-> block.elements_len,
                                             res |-> r.res, idx |-> r.idx]
                             /\ sel_rets' = IF r.res = "Ok"
                                            THEN Append(sel_rets, r.idx)
                                            ELSE sel_rets
                             /\ blk_acts' =
                                  Append(blk_acts,
                                         IF r.res = "Ok"
                                         THEN [a |-> "Element", i |-> r.idx]
                                         ELSE [a |-> "Err", i |-> 0])
          ELSE /\ block' = [block EXCEPT !.prev_step_separated = TRUE]
               /\ blk_acts' = Append(blk_acts, [a |-> "Separator", i |-> 0])
               /\ UNCHANGED selVars
     ELSE /\ blk_acts' = Append(blk_acts, [a |-> "None", i |-> 0])
          /\ UNCHANGED <<block, selVars>>

(* BlockState::next_element *)
NextElement ==
  /\ Len(blk_acts) < MaxActs
  /\ \E draws \in BlockDraws(block, sel) : NextElementWith(draws)

(* BlockState::force_stop *)
ForceStop ==
  /\ ~block.force_stop
  /\ block' = [block EXCEPT !.force_stop = TRUE]
  /\ UNCHANGED <<blk_acts, selVars, resVars, vmVars, parseVars>>

NextBlock == NextElement \/ ForceStop

SpecBlock == InitBlock /\ [][NextBlock]_vars

(***************************************************************************)
(* Claims about block states, checked under SpecBlock.                     *)
(***************************************************************************)

(* A block created with Repeat(n), n >= 1, whose condval is not false and  *)
(* on which force_stop was not called.                                     *)
RepeatBlock ==
  /\ block.attrs.reps.kind = "Repeat" /\ block.attrs.reps.n >= 1
  /\ block.attrs.condval # "False"
  /\ ~block.force_stop

(* What the i-th next_element call (i = 1,2,..) of a Repeat(n) block is to *)
(* return: Element, Separator, .., Element (n Elements, n-1 Separators),   *)
(* then None.                                                              *)
ExpectedAct(i, n) ==
  IF i > 2 * n - 1 THEN "None"
  ELSE IF i % 2 = 1 THEN "Element" ELSE "Separator"

Alternates ==
  \A i \in 1..Len(blk_acts) : blk_acts[i].a = ExpectedAct(i, block.attrs.reps.n)

ArgValues(k) == [j \in 1..k |-> IntVal(j)]

(* C7: a call of a non-variadic user function with k arguments,            *)
(* min_arg_count <= k <= number of parameters, goes through and binds, in  *)
(* the locals of the new frame, the value of the i-th argument expression  *)
(* to the i-th parameter for i <= k and Empty to every other parameter.    *)
C7_VarityBinding ==
  \A i \in 1..Len(invoked) :
    LET a == invoked[i]
        f == a.callee.fn
        k == Len(a.args)
    IN (/\ is_callable(a.callee) /\ ~is_native(f) /\ ~is_variadic(f)
        /\ f.min_arg_count <= k /\ k <= Len(f.params))
       => /\ a.outcome = "Called"
          /\ a.args = ArgValues(k)
          /\ (Len(call_stack) = a.depth + 1) =>
               /\ Top.sequence = BodyElements(f)[1]
               /\ DOMAIN locals[Len(locals)] = {f.params[j].name : j \in 1..Len(f.params)}
               /\ \A j \in 1..Len(f.params) :
                    locals[Len(locals)][f.params[j].name] =
                      IF j <= k THEN IntVal(j) ELSE Empty

C7_Witness ==
  /\ Len(invoked) = 1 /\ Len(call_stack) = invoked[1].depth + 1
  /\ ~is_native(invoked[1].callee.fn) /\ ~is_variadic(invoked[1].callee.fn)
  /\ Len(invoked[1].callee.fn.params) = 3 /\ invoked[1].callee.fn.min_arg_count = 2
  /\ Len(invoked[1].args) = 2
  /\ locals[Len(locals)]["b"] = IntVal(2) /\ locals[Len(locals)]["c"] = Empty

(* C8: Invoke raises ArgumentMismatch exactly when argc < min_arg_count or *)
(* the function is non-variadic and argc > number of parameters; for every *)
(* other argc the function is called; a non-function callee yields         *)
(* CannotInvokeValue.                                                      *)
C8_ArgumentCheck ==
  \A i \in 1..Len(invoked) :
    LET a == invoked[i]
        f == a.callee.fn
        argc == Len(a.args)
        mismatch == \/ argc < f.min_arg_count
                    \/ (~is_variadic(f) /\ argc > Len(f.params))
    IN IF is_callable(a.callee)
       THEN /\ (a.outcome = "ArgumentMismatch") <=> mismatch
            /\ ~mismatch => a.outcome = "Called"
       ELSE a.outcome = "CannotInvokeValue"

(* C9: a call of a variadic user function with argc >= min_arg_count goes  *)
(* through, and the arguments bound are the first vararg_start_index       *)
(* argument values in order (a missing optional one as Empty) followed by  *)
(* one list of the remaining values in order.                              *)
C9_VariadicCondense ==
  \A i \in 1..Len(invoked) :
    LET a == invoked[i]
        f == a.callee.fn
        argc == Len(a.args)
        vsi == f.vararg_start_index
    IN (is_callable(a.callee) /\ is_variadic(f) /\ ~is_native(f)
        /\ argc >= f.min_arg_count)
       => /\ a.outcome = "Called"
          /\ a.args = ArgValues(argc)
          /\ (Len(call_stack) = a.depth + 1) =>
               \A j \in 1..Len(f.params) :
                 IF j <= vsi
                 THEN locals[Len(locals)][f.params[j].name] =
                        (IF j <= argc THEN IntVal(j) ELSE Empty)
                 ELSE /\ locals[Len(locals)][f.params[j].name] = ListVal(Len(heap))
                      /\ heap[Len(heap)] =
                           ListObj([m \in 1..(IF argc > vsi THEN argc - vsi ELSE 0) |->
                                      IntVal(vsi + m)])

(* The scope layers, among the d outermost, that bind f. *)
BindingLayers(d) == {l \in 1..d : "f" \in DOMAIN locals[l]}

InitAttr ==
  /\ ResIdle
  /\ ParseIdle
  /\ VmIdle
  /\ sel = Selector_new("Random")
  /\ sel_last = NoCall
  /\ sel_rets = <<>>
  /\ block = NoBlock
  /\ blk_acts = <<>>

CanOp == attr_ops < MaxAttrOps

AttrOp(r, op) ==
  /\ resolver' = r
  /\ attr_last' = op
  /\ attr_ops' = attr_ops + 1
  /\ UNCHANGED <<selVars, blkVars, vmVars, parseVars>>

OtherOp(name) == [op |-> name, x |-> FALSE, prior |-> "None"]

MakeIf ==
  /\ CanOp
  /\ \E x \in BOOLEAN :
       AttrOp(attrs_mut(resolver, make_if(attrs(resolver), x)), OtherOp("make_if"))

MakeElse ==
  /\ CanOp
  /\ AttrOp(attrs_mut(resolver, make_else(attrs(resolver))), OtherOp("make_else"))

MakeElseIf ==
  /\ CanOp
  /\ \E x \in BOOLEAN :
       AttrOp(attrs_mut(resolver, make_else_if(attrs(resolver), x)),
              [op |-> "make_else_if", x |-> x, prior |-> attrs(resolver).prev_condval])

SetReps ==
  /\ CanOp
  /\ \E reps \in {[kind |-> "All", n |-> 0], [kind |-> "Repeat", n |-> MaxReps]} :
       AttrOp(attrs_mut(resolver, [attrs(resolver) EXCEPT !.reps = reps]), OtherOp("rep"))

SetSeparator ==
  /\ CanOp
  /\ AttrOp(attrs_mut(resolver, [attrs(resolver) EXCEPT !.separator = IntVal(0)]),
            OtherOp("sep"))

SetSelector ==
  /\ CanOp
  /\ AttrOp(attrs_mut(resolver, [attrs(resolver) EXCEPT !.selector = 1]), OtherOp("sel"))

PushBlock ==
  /\ CanOp
  /\ \E block_len \in 1..MaxN :
       AttrOp(push_block(resolver, block_len), OtherOp("push_block"))

PopBlock ==
  /\ CanOp
  /\ Len(resolver.block_stack) > 0
  /\ AttrOp(pop_block(resolver), OtherOp("pop_block"))

PushAttrs ==
  /\ CanOp
  /\ AttrOp(push_attrs(resolver), OtherOp("push_attrs"))

PopAttrs ==
  /\ CanOp
  /\ Len(resolver.attr_override_stack) > 0
  /\ AttrOp(pop_attrs(resolver), OtherOp("pop_attrs"))

ResetAttrs ==
  /\ CanOp
  /\ AttrOp(reset_attrs(resolver), OtherOp("reset_attrs"))

NextAttr ==
  \/ MakeIf
  \/ MakeElse
  \/ MakeElseIf
  \/ SetReps
  \/ SetSeparator
  \/ SetSelector
  \/ PushBlock
  \/ PopBlock
  \/ PushAttrs
  \/ PopAttrs
  \/ ResetAttrs

SpecAttr == InitAttr /\ [][NextAttr]_vars

(***************************************************************************)
(* Claims about attribute frames, checked under SpecAttr.                  *)
(***************************************************************************)

(* The condval of frame reaches the frame that propagate makes from it. *)
Propagated(frame) ==
  frame.condval # "None" /\ propagate(frame).prev_condval = frame.condval

(* C11 as stated: after make_else_if(x), condval is (not prior and x) for  *)
(* the prior propagated from the previous block, and condval is propagated *)
(* to the next frame if and only if it is false.                           *)
C11_ElseIfOriginal ==
  attr_last.op = "make_else_if" =>
    /\ attr_last.prior # "None" =>
         attrs(resolver).condval = SomeBool(~(attr_last.prior = "True") /\ attr_last.x)
    /\ Propagated(attrs(resolver)) <=> attrs(resolver).condval = "False"

(* C11, amended: when a condval was propagated from the previous block,    *)
(* make_else_if(x) sets condval to (not prior and x) and the condval is    *)
(* propagated to the next frame if and only if it is false; when none was  *)
(* propagated, condval is false and is not propagated.                     *)
C11_ElseIf ==
  attr_last.op = "make_else_if" =>
    IF attr_last.prior # "None"
    THEN /\ attrs(resolver).condval =
              SomeBool(~(attr_last.prior = "True") /\ attr_last.x)
         /\ Propagated(attrs(resolver)) <=> attrs(resolver).condval = "False"
    ELSE /\ attrs(resolver).condval = "False"
         /\ ~Propagated(attrs(resolver))

C11_Witness ==
  /\ attr_last = [op |-> "make_else_if", x |-> TRUE, prior |-> "False"]
  /\ attrs(resolver).condval = "True"
  /\ Len(resolver.block_stack) = 1
  /\ resolver.block_stack[1].attrs.condval = "False"

(* The four attributes a block is resolved with are the defaults. *)
DefaultAttributes(frame) ==
  /\ frame.reps = AttributeFrame_default.reps
  /\ frame.separator = Empty
  /\ frame.selector = 0
  /\ frame.condval = "None"

C12_PushBlockStep ==
  (attr_ops' # attr_ops /\ attr_last'.op = "push_block") =>
    LET pending == attrs(resolver)
        n == Len(resolver.block_stack)
        m == Len(resolver.attr_override_stack)
        state == resolver'.block_stack[n + 1]
    IN /\ Len(resolver'.block_stack) = n + 1
       /\ SubSeq(resolver'.block_stack, 1, n) = resolver.block_stack
       /\ state.attrs.reps = pending.reps
       /\ state.attrs.separator = pending.separator
       /\ state.attrs.selector = pending.selector
       /\ state.attrs.condval = pending.condval
       /\ DefaultAttributes(attrs(resolver'))
       /\ Len(resolver'.attr_override_stack) = m
       /\ \A i \in 1..(m - 1) :
            resolver'.attr_override_stack[i] = resolver.attr_override_stack[i]
       /\ m > 0 => resolver'.base_attrs = resolver.base_attrs

(* C12: every push_block step gives the new block state the reps,          *)
(* separator, selector and condval of the pending (top) attribute frame,   *)
(* leaves the top frame with the defaults of these four, and changes no    *)
(* lower attribute frame and no earlier block state.                       *)
C12_PushBlock == [][C12_PushBlockStep]_vars

C12_Witness ==
  /\ attr_last.op = "push_block"
  /\ Len(resolver.block_stack) = 2
  /\ resolver.block_stack[1].attrs.reps.kind = "Repeat"
  /\ resolver.block_stack[1].attrs.selector = 1
  /\ DefaultAttributes(resolver.block_stack[2].attrs)
  /\ DefaultAttributes(attrs(resolver))

(***************************************************************************)
(* Claims about the stack limits, checked under SpecStack.                 *)
(***************************************************************************)

(* A call of the recursive f has just pushed the frame of f's body. *)
JustCalled ==
  /\ IsRecursive /\ vm_result.status = "running"
  /\ Len(invoked) > 0 /\ invoked[Len(invoked)].outcome = "Called"
  /\ Len(call_stack) = invoked[Len(invoked)].depth + 1
  /\ Top = StackFrame_new(Top.sequence, TRUE)

(* Whenever a call of f has just pushed its body, at any level of either   *)
(* window, the VM is in the state AtRecursionLevel describes.              *)
RecursionShape ==
  JustCalled => AtRecursionLevel(program[1].args[1].n, Len(invoked))

(* C13: the value stack and the call stack never hold more than            *)
(* MAX_STACK_SIZE entries; a StackOverflow error occurs only at a push     *)
(* onto a full stack, which stays as deep as it was; and the recursive     *)
(* programs end in no other way than StackOverflow.                        *)
C13_StackLimit ==
  /\ Len(val_stack) <= MAX_STACK_SIZE
  /\ Len(call_stack) <= MAX_STACK_SIZE
  /\ vm_result.err = "StackOverflow" =>
       Len(val_stack) = MAX_STACK_SIZE \/ Len(call_stack) = MAX_STACK_SIZE
  /\ (IsRecursive /\ vm_result.status \notin {"idle", "running"}) =>
       vm_result.err = "StackOverflow"
  /\ RecursionShape

C13_Witness ==
  /\ program = RecursiveProgram(60)
  /\ vm_result.err = "StackOverflow"
  /\ Len(call_stack) = MAX_STACK_SIZE
  /\ call_stack[MAX_STACK_SIZE].intents = <<PrintLastOutput>>

(***************************************************************************)
(* Claims about the value stack, checked under SpecRun.                    *)
(***************************************************************************)

(* The values an intent is still to pop, less those it is still to push or *)
(* to have pushed by frames it has not pushed yet.                         *)
Net(intent) ==
  CASE intent.k = "PrintLastOutput" -> 1
    [] intent.k = "DefVar" -> 1
    [] intent.k = "GetValue" ->
         intent.dynamic_key_count - (IF intent.override_print THEN 1 ELSE 0)
    [] intent.k = "BuildDynamicGetter" ->
         intent.dynamic_key_count - Len(intent.pending_exprs)
         - (IF intent.override_print THEN 1 ELSE 0)
    [] intent.k = "Invoke" -> intent.eval_count + 1
    [] intent.k = "BuildDynamicSetter" -> intent.expr_count - Len(intent.pending_exprs)
    [] intent.k = "SetValue" -> intent.expr_count + 1
    [] intent.k = "BuildList" -> IF intent.index > 0 THEN 1 ELSE 0
    [] intent.k = "BuildMap" ->
         IF intent.pair_index = 0 THEN 0
         ELSE IF intent.init[intent.pair_index].dynamic THEN 2 ELSE 1

(* The values the intent at the head of a frame pops when it is handled. *)
Pops(intent) ==
  CASE intent.k = "GetValue" -> intent.dynamic_key_count
    [] intent.k = "Invoke" ->
         IF intent.eval_count >= Len(intent.arg_exprs) THEN Len(intent.arg_exprs) + 1
         ELSE 0
    [] intent.k \in {"BuildDynamicGetter", "BuildDynamicSetter"} -> 0
    [] OTHER -> Net(intent)

RECURSIVE NetOf(_)
NetOf(intents) ==
  IF Len(intents) = 0 THEN 0 ELSE Net(Head(intents)) + NetOf(Tail(intents))

(* A frame that has not run yet: it was pushed together with the frame    *)
(* above it, if there is one.                                              *)
NotRun(frame) == ~frame.started /\ Len(frame.intents) = 0

(* The frames frame d has pushed that are to deliver a value: the frame    *)
(* above it and, if that one has not run yet, the one pushed on top of it  *)
(* in the same step.                                                       *)
InFlight(d) ==
  IF NotRun(call_stack[d]) THEN 0
  ELSE (IF d + 1 <= Len(call_stack) /\ call_stack[d + 1].has_output THEN 1 ELSE 0)
       + (IF /\ d + 2 <= Len(call_stack)
             /\ NotRun(call_stack[d + 1])
             /\ call_stack[d + 2].has_output
          THEN 1 ELSE 0)

(* The values on the value stack that were pushed for the intents of       *)
(* frame d, and those pushed for the frames up to d.                       *)
Holds(d) == NetOf(call_stack[d].intents) - InFlight(d)

RECURSIVE HeldUpTo(_)
HeldUpTo(d) == IF d = 0 THEN 0 ELSE Holds(d) + HeldUpTo(d - 1)

(* C14: no run ends with StackUnderflow; in every state of a run the value *)
(* stack holds exactly the values pushed for the pending intents of the    *)
(* frames (one value, the program's output, once the call stack is         *)
(* empty), and the intent handled next pops only values pushed for its     *)
(* own frame.                                                              *)
C14_NoUnderflow ==
  /\ vm_result.err # "StackUnderflow"
  /\ vm_result.status = "running" =>
       /\ \A d \in 1..Len(call_stack) : Holds(d) >= 0
       /\ Len(val_stack) = IF Len(call_stack) = 0 THEN 1 ELSE HeldUpTo(Len(call_stack))
       /\ (Len(call_stack) > 0 /\ Len(Top.intents) > 0) =>
            /\ Pops(Top.intents[1]) <= Len(val_stack)
            /\ Pops(Top.intents[1]) <= Len(val_stack) - HeldUpTo(Len(call_stack) - 1)

C14_Witness ==
  /\ HasIntent("SetValue")
  /\ Top.intents[1].expr_count = 2
  /\ Len(call_stack) = 1
  /\ Len(val_stack) = 3
  /\ val_stack[1] = IntVal(1) /\ val_stack[3] = StringVal("k")

(* C15: a step that fails with a runtime error ends the run: the result is *)
(* the error and no output, whatever the frames have written, and no step  *)
(* follows it.                                                             *)
C15_ErrorStep ==
  /\ vm_result'.status = "error" =>
       /\ vm_result.status = "running"
       /\ vm_result'.err # ""
       /\ vm_result'.out = Empty
  /\ vm_result.status = "error" => UNCHANGED vars

C15_ErrorEndsRun == [][C15_ErrorStep]_vars

C15_Witness ==
  /\ vm_result = [status |-> "error", err |-> "IndexError", out |-> Empty]
  /\ call_stack[1].output = <<StringVal("p")>>
  /\ Len(Top.intents) = 2 /\ Top.intents[2].k = "Invoke"

(* The function values the VM has built from FuncDef and Closure nodes and *)
(* that are on the value stack, in a frame's output or bound to a local.   *)
SynthesisedFunctions ==
  LET vals == {val_stack[i] : i \in 1..Len(val_stack)}
              \cup UNION {{call_stack[d].output[i] : i \in 1..Len(call_stack[d].output)} :
                          d \in 1..Len(call_stack)}
              \cup UNION {{locals[k][nm] : nm \in DOMAIN locals[k]} : k \in 1..Len(locals)}
  IN {v.fn : v \in {w \in vals : w.t = "function" /\ ~w.fn.native}}

(* C20 as stated: every function value built from a FuncDef or Closure     *)
(* node has min_arg_count <= vararg_start_index <= number of parameters.   *)
C20_Original ==
  \A f \in SynthesisedFunctions :
    f.min_arg_count <= f.vararg_start_index /\ f.vararg_start_index <= Len(f.params)

(* C20: every function value built from a FuncDef or Closure node has      *)
(* vararg_start_index <= number of parameters; its min_arg_count is the   *)
(* number of its leading required parameters, at most vararg_start_index,  *)
(* unless the variadic parameter is one-or-more and every parameter before *)
(* it is required: then min_arg_count = vararg_start_index + 1.            *)
C20_ArgCounts ==
  \A f \in SynthesisedFunctions :
    LET vsi == f.vararg_start_index
        plus == /\ vsi < Len(f.params)
                /\ f.params[vsi + 1].varity = "VariadicPlus"
                /\ \A i \in 1..vsi : f.params[i].varity = "Required"
    IN /\ vsi <= Len(f.params)
       /\ f.min_arg_count = IF plus THEN vsi + 1
                            ELSE Cardinality({i \in 1..vsi :
                                   \A j \in 1..i : f.params[j].varity = "Required"})

C20_Witness ==
  \E f \in SynthesisedFunctions :
    /\ Len(f.params) = 3 /\ f.params[3].varity = "VariadicPlus"
    /\ f.params[2].varity = "Required"
    /\ f.min_arg_count = 3 /\ f.vararg_start_index = 2

(***************************************************************************)
(* RantParser (compiler/parser.rs)                                         *)
(*                                                                         *)
(* The recursive descent is a stack of frames, parse_stack, one for each   *)
(* parsing function that is at work: fn names the function and st the call *)
(* it waits for. A function that returns leaves its result in parse_ret,   *)
(* where its caller picks it up. A hard error (return Err(())) ends the    *)
(* parse at once.                                                          *)
(***************************************************************************)

(* quickscope::ScopeSet as var_stack uses it: the layers of names, the     *)
(* base layer first. The height of a layer is its index from 0.            *)
ScopeSet_default == <<{}>>
push_layer(layers) == Append(layers, {})
pop_layer(layers) ==
  IF Len(layers) > 1 THEN SubSeq(layers, 1, Len(layers) - 1) ELSE layers
depth(layers) == Len(layers)
ScopeSet_define(layers, id) == [layers EXCEPT ![Len(layers)] = @ \cup {id}]
(* define_parent(id, n), n < depth: the layer n below the top one. *)
define_parent(layers, id, n) == [layers EXCEPT ![Len(layers) - n] = @ \cup {id}]
(* height_of(id).unwrap_or_default() *)
height_ofBad(layers, id) == 0

height_of(layers, id) ==
  LET found == {k \in 1..Len(layers) : id \in layers[k]}
  IN IF found = {} THEN 0 ELSE Max(found) - 1

(* The names defined in the layers below height h. *)
NamesBelow(layers, h) == UNION {layers[k] : k \in 1..Min(h, Len(layers))}

(* A frame of capture_stack: the height of the layer of the function body  *)
(* and the names captured so far. visible is not in the source: the names  *)
(* defined in the enclosing scopes when the body began.                    *)
CaptureFrame(height, visible) == [height |-> height, captures |-> {}, visible |-> visible]

NoParseFrame ==
  [fn |-> "", st |-> "", mode |-> "", layered |-> FALSE, sequence |-> <<>>,
   is_seq_printing |-> FALSE, pending_whitespace |-> "", items |-> <<>>,
   id |-> "", kind |-> Local,
   path |-> NoPath, params |-> <<>>, params_set |-> {}, last_varity |-> "Required",
   is_sig_variadic |-> FALSE, allow_anonymous |-> FALSE, is_anonymous |-> FALSE,
   is_closure |-> FALSE]

(* The parser between two steps: the frames, the result handed back, the   *)
(* position of the reader, var_stack, capture_stack, the problems reported *)
(* in this step and whether the step ended with a hard error.              *)
Cur ==
  [stack |-> parse_stack, ret |-> NoRet, reader |-> reader, var_stack |-> var_stack,
   capture_stack |-> capture_stack, problems |-> {}, hard |-> FALSE, result |-> "Err"]

(* RantTokenReader: peek and next read the token at the reader, skip_ws    *)
(* moves the reader past the whitespace tokens there; next_solid is next   *)
(* after skip_ws. The sources hold whitespace between the items of a       *)
(* sequence and inside accessors only.                                     *)
peek(p) == IF p.reader < Len(tokens) THEN tokens[p.reader + 1] ELSE EndOfSource
next(p) == [p EXCEPT !.reader = Min(@ + 1, Len(tokens))]
RECURSIVE skip_ws(_)
skip_ws(p) == IF peek(p).t = "Whitespace" THEN skip_ws(next(p)) ELSE p

(* RantParser::syntax_error, and the same followed by return Err(()). *)
syntax_errorBad(p, problem) == p

syntax_error(p, problem) == [p EXCEPT !.problems = @ \cup {problem}]
hard_error(p, problem) == [syntax_error(p, problem) EXCEPT !.hard = TRUE]
(* unreachable!() *)
panic(p) == [p EXCEPT !.hard = TRUE, !.result = "Panic"]

top(p) == p.stack[Len(p.stack)]
set_top(p, frame) == [p EXCEPT !.stack[Len(p.stack)] = frame]
call(p, frame) == [p EXCEPT !.stack = Append(@, frame)]
return(p, ret) == [p EXCEPT !.stack = SubSeq(@, 1, Len(@) - 1), !.ret = ret]

Commit(p) ==
  /\ reader' = p.reader
  /\ reporter' = reporter \cup p.problems
  /\ has_errors' = (has_errors \/ p.problems # {})
  /\ var_stack' = p.var_stack
  /\ capture_stack' = p.capture_stack
  /\ IF p.hard
     THEN parse_stack' = <<>> /\ parse_ret' = NoRet /\ parse_result' = p.result
     ELSE parse_stack' = p.stack /\ parse_ret' = p.ret /\ UNCHANGED parse_result
  /\ UNCHANGED <<tokens, selVars, blkVars, resVars, vmVars>>

(* A parsing function fn is at work (its callee, if any, is still busy or  *)
(* has not been called), or takes up the result of the call st.            *)
AtWork(fn, st) ==
  /\ parse_result = "parsing"
  /\ Len(parse_stack) > 0
  /\ ~parse_ret.some
  /\ parse_stack[Len(parse_stack)].fn = fn
  /\ parse_stack[Len(parse_stack)].st = st

Resumes(fn, sts) ==
  /\ parse_result = "parsing"
  /\ Len(parse_stack) > 0
  /\ parse_ret.some
  /\ parse_stack[Len(parse_stack)].fn = fn
  /\ parse_stack[Len(parse_stack)].st \in sts

(* RantParser::do_capture_pass *)
do_capture_pass(p, rst) ==
  CASE rst.k = "VarDef" ->
         CASE rst.kind.k = "Local" ->
                [p EXCEPT !.var_stack = ScopeSet_define(@, rst.s)]
           [] rst.kind.k = "Descope" ->
                [p EXCEPT !.var_stack = define_parent(@, rst.s, rst.kind.n)]
           [] OTHER -> p
    [] rst.k \in {"VarGet", "VarSet", "FuncCall"} ->
         IF /\ is_local(rst.path.kind)
            /\ Len(p.capture_stack) > 0
            /\ capture_var_name(rst.path) # {}
         THEN LET id == CHOOSE name \in capture_var_name(rst.path) : TRUE
                  frame == p.capture_stack[Len(p.capture_stack)]
              IN IF height_of(p.var_stack, id) < frame.height
                 THEN [p EXCEPT !.capture_stack[Len(p.capture_stack)].captures = @ \cup {id}]
                 ELSE p
         ELSE p
    [] OTHER -> p

(* RantParser::parse_sequence: a layer of var_stack around                 *)
(* parse_sequence_inner.                                                   *)
SequenceFrame(mode, layered) ==
  [NoParseFrame EXCEPT !.fn = "parse_sequence", !.mode = mode, !.layered = layered]

parse_sequence(p, mode) ==
  call([p EXCEPT !.var_stack = push_layer(@)], SequenceFrame(mode, TRUE))

(* A return of parse_sequence_inner, and of the parse_sequence around it:  *)
(* self.var_stack.pop_layer().                                             *)
sequence_return(p, end, printing) ==
  return([p EXCEPT !.var_stack = IF top(p).layered THEN pop_layer(@) ELSE @],
         [NoRet EXCEPT !.some = TRUE, !.nodes = top(p).sequence, !.end = end,
                       !.printing = printing])

(* whitespace!: pending_whitespace is "" for None. *)
whitespace_allow(p) ==
  IF top(p).pending_whitespace # ""
  THEN set_top(p, [top(p) EXCEPT
                     !.sequence = Append(@, Rst_Whitespace(top(p).pending_whitespace)),
                     !.pending_whitespace = ""])
  ELSE p
whitespace_queue(p, ws) == set_top(p, [top(p) EXCEPT !.pending_whitespace = ws])
whitespace_ignore_prev(p) == set_top(p, [top(p) EXCEPT !.pending_whitespace = ""])
whitespace_ignore_both(p) == skip_ws(whitespace_ignore_prev(p))

(* seq_add!, and the end of an iteration of the loop of                    *)
(* parse_sequence_inner: in SingleItem mode the sequence returns.          *)
seq_add(p, rst) == set_top(p, [top(p) EXCEPT !.sequence = Append(@, rst)])
seq_printing(p) == set_top(p, [top(p) EXCEPT !.is_seq_printing = TRUE])
item_end(p) ==
  IF top(p).mode = "SingleItem"
  THEN sequence_return(p, "SingleItemEnd", top(p).is_seq_printing)
  ELSE p


(* RantTokenReader::last_token_string of a symbol *)
last_token_string(token) ==
  CASE token.t = "Fragment" -> token.s
    [] token.t = "Integer" -> ToString(token.n)
    [] token.t = "Bang" -> "!"
    [] token.t = "Question" -> "?"
    [] token.t = "Slash" -> "/"
    [] token.t = "Plus" -> "+"
    [] token.t = "Dollar" -> "$"
    [] token.t = "Whitespace" -> " "
    [] token.t = "Equals" -> "="
    [] token.t = "Colon" -> ":"
    [] token.t = "Semi" -> ";"
    [] OTHER -> token.t

(* consume_fragments!: the fragments that follow join the text. *)
RECURSIVE consume_fragments(_, _)
consume_fragments(p, frag) ==
  IF peek(p).t = "Fragment" THEN consume_fragments(next(p), frag \o peek(p).s)
  ELSE [p |-> p, frag |-> frag]

(* RantParser::parse: the top-level sequence. *)
ParseStart ==
  /\ parse_result = "idle"
  /\ Len(parse_stack) = 0
  /\ ~parse_ret.some
  /\ parse_result' = "parsing"
  /\ parse_stack' = <<SequenceFrame("TopLevel", TRUE)>>
  /\ var_stack' = push_layer(var_stack)
  /\ UNCHANGED <<tokens, reader, capture_stack, has_errors, reporter, parse_ret>>
  /\ UNCHANGED <<selVars, blkVars, resVars, vmVars>>

(* RantParser::parse: Ok unless there are soft syntax errors. *)
ParseFinish ==
  /\ parse_result = "parsing"
  /\ Len(parse_stack) = 0
  /\ parse_ret.some
  /\ parse_result' = IF has_errors THEN "Err" ELSE "Ok"
  /\ UNCHANGED <<tokens, reader, var_stack, capture_stack, has_errors, reporter,
                 parse_stack, parse_ret>>
  /\ UNCHANGED <<selVars, blkVars, resVars, vmVars>>

(* parse_sequence_inner: a token that is an item of the sequence. *)
SequenceItem ==
  /\ AtWork("parse_sequence", "")
  /\ peek(Cur).t \in {"Fragment", "Integer", "Bang", "Question", "Slash", "Plus",
                      "Dollar", "Equals"}
  /\ LET token == peek(Cur)
         p == whitespace_allow(next(Cur))
     IN Commit(
          CASE token.t = "Fragment" ->
                 LET rest == consume_fragments(p, token.s)
                 IN item_end(seq_printing(seq_add(rest.p, Rst_Fragment(rest.frag))))
            [] token.t = "Integer" ->
                 item_end(seq_printing(seq_add(p, Rst_Integer(token.n))))
            [] OTHER ->
                 item_end(seq_printing(seq_add(p, Rst_Fragment(last_token_string(token))))))

(* parse_sequence_inner: whitespace is queued if the sequence is printing. *)
SequenceWhitespace ==
  /\ AtWork("parse_sequence", "")
  /\ peek(Cur).t = "Whitespace"
  /\ LET p == next(Cur)
     IN Commit(item_end(IF top(p).is_seq_printing
                        THEN whitespace_queue(p, last_token_string(peek(Cur)))
                        ELSE p))

(* parse_sequence_inner: a token that ends the sequence in some modes and  *)
(* is text or unexpected in the others.                                    *)
SequenceDelimiter ==
  /\ AtWork("parse_sequence", "")
  /\ peek(Cur).t \in {"Pipe", "RightBrace", "RightBracket", "RightAngle", "Colon",
                      "Semi", "Caret"}
  /\ LET token == peek(Cur)
         p == IF token.t \in {"Pipe", "RightBrace"} THEN whitespace_ignore_prev(next(Cur))
              ELSE next(Cur)
         mode == top(p).mode
         printing == top(p).is_seq_printing
         unexpected == item_end(syntax_error(p, "UnexpectedToken"))
     IN Commit(
          CASE token.t = "Pipe" ->
                 CASE mode = "BlockElementAny" -> sequence_return(p, "BlockDelim", printing)
                   [] mode = "DynamicKey" ->
                        item_end(syntax_error(p, "DynamicKeyBlockMultiElement"))
                   [] mode = "FunctionBody" ->
                        item_end(syntax_error(p, "FunctionBodyBlockMultiElement"))
                   [] OTHER -> unexpected
            [] token.t = "RightBrace" ->
                 CASE mode = "BlockElementAny" -> sequence_return(p, "BlockEnd", printing)
                   [] mode = "FunctionBody" -> sequence_return(p, "FunctionBodyEnd", TRUE)
                   [] mode = "DynamicKey" -> sequence_return(p, "DynamicKeyEnd", TRUE)
                   [] OTHER -> unexpected
            [] token.t = "RightBracket" ->
                 CASE mode = "AnonFunctionExpr" ->
                        sequence_return(p, "AnonFunctionExprNoArgs", TRUE)
                   [] mode = "FunctionArg" -> sequence_return(p, "FunctionArgEndBreak", TRUE)
                   [] OTHER -> unexpected
            [] token.t = "RightAngle" ->
                 CASE mode = "VariableAssignment" ->
                        sequence_return(p, "VariableAccessEnd", TRUE)
                   [] mode = "AccessorFallbackValue" ->
                        sequence_return(p, "AccessorFallbackValueToEnd", TRUE)
                   [] OTHER -> unexpected
            [] token.t = "Colon" ->
                 CASE mode = "AnonFunctionExpr" ->
                        sequence_return(p, "AnonFunctionExprToArgs", TRUE)
                   [] OTHER -> item_end(seq_add(p, Rst_Fragment(":")))
            [] token.t = "Semi" ->
                 CASE mode = "FunctionArg" -> sequence_return(p, "FunctionArgEndNext", TRUE)
                   [] mode = "VariableAssignment" ->
                        sequence_return(p, "VariableAssignDelim", TRUE)
                   [] mode = "AccessorFallbackValue" ->
                        sequence_return(p, "AccessorFallbackValueToDelim", TRUE)
                   [] OTHER -> item_end(seq_add(p, Rst_Fragment(";")))
            [] OTHER -> unexpected)

(* parse_sequence_inner: the source ends. *)
SequenceEnd ==
  /\ AtWork("parse_sequence", "")
  /\ peek(Cur).t = "None"
  /\ Commit(sequence_return(Cur, "ProgramEnd", top(Cur).is_seq_printing))

(* RantParser::parse_block, called for { and for the defer operator *. *)
BlockFrame(deferred) ==
  [NoParseFrame EXCEPT !.fn = "parse_block", !.mode = IF deferred THEN "BlockValue" ELSE "Block"]

SequenceBlock ==
  /\ AtWork("parse_sequence", "")
  /\ peek(Cur).t \in {"LeftBrace", "Star"}
  /\ LET token == peek(Cur)
         p == next(Cur)
     IN Commit(
          IF token.t = "Star"
          THEN IF peek(skip_ws(p)).t = "LeftBrace"
               THEN parse_sequence(call(next(skip_ws(p)), BlockFrame(TRUE)),
                                   "BlockElementAny")
               ELSE hard_error(p, "ExpectedToken")
          ELSE parse_sequence(call(p, BlockFrame(FALSE)), "BlockElementAny"))

(* A parse_block that pushes a sequence only at a | delimiter. *)
BlockElementBad ==
  /\ Resumes("parse_block", {""})
  /\ LET ended == parse_ret.end = "BlockEnd"
         frame == [top(Cur) EXCEPT !.items = IF ended THEN @ ELSE Append(@, parse_ret.nodes),
                                   !.is_seq_printing = @ \/ parse_ret.printing]
         p == set_top(Cur, frame)
         rst == [Rst_Block(frame.items) EXCEPT
                     !.k = frame.mode,
                     !.flag = IF frame.is_seq_printing THEN "Hint" ELSE "None"]
     IN Commit(
          CASE parse_ret.end = "BlockDelim" -> parse_sequence(p, "BlockElementAny")
            [] parse_ret.end = "BlockEnd" ->
                 return(p, [NoRet EXCEPT !.some = TRUE, !.nodes = <<rst>>, !.end = "Block"])
            [] OTHER -> hard_error(p, "UnclosedBlock"))

(* parse_block: an element of the block has been read. *)
BlockElement ==
  /\ Resumes("parse_block", {""})
  /\ LET frame == [top(Cur) EXCEPT !.items = Append(@, parse_ret.nodes),
                                   !.is_seq_printing = @ \/ parse_ret.printing]
         p == set_top(Cur, frame)
         rst == [Rst_Block(frame.items) EXCEPT
                     !.k = frame.mode,
                     !.flag = IF frame.is_seq_printing THEN "Hint" ELSE "None"]
     IN Commit(
          CASE parse_ret.end = "BlockDelim" -> parse_sequence(p, "BlockElementAny")
            [] parse_ret.end = "BlockEnd" ->
                 return(p, [NoRet EXCEPT !.some = TRUE, !.nodes = <<rst>>, !.end = "Block"])
            [] OTHER -> hard_error(p, "UnclosedBlock"))

(* The LeftAngle arm of parse_sequence_inner: the accessors from the k-th  *)
(* on join the sequence, a getter after the pending whitespace.            *)
RECURSIVE add_accessors(_, _, _)
add_accessors(p, accessors, k) ==
  IF k > Len(accessors) THEN p
  ELSE add_accessors(
         seq_add(IF accessors[k].k = "VarGet" THEN whitespace_allow(seq_printing(p))
                 ELSE p,
                 accessors[k]),
         accessors, k + 1)

(* parse_sequence_inner: the block, the function access or the accessors   *)
(* that were read join the sequence. No hint or sink precedes them, so a   *)
(* block prints if it took a hint from its elements, a call allows no      *)
(* whitespace and a function definition ignores it on both sides.          *)
SequenceResume ==
  /\ Resumes("parse_sequence", {""})
  /\ LET nodes == parse_ret.nodes
     IN Commit(item_end(
          CASE parse_ret.end = "Block" ->
                 seq_add(IF nodes[1].flag = "Hint"
                         THEN seq_printing(whitespace_allow(Cur)) ELSE Cur,
                         nodes[1])
            [] parse_ret.end = "Accessor" -> add_accessors(Cur, nodes, 1)
            [] OTHER ->
                 seq_add(IF nodes[1].k = "FuncDef" THEN whitespace_ignore_both(Cur)
                         ELSE Cur,
                         nodes[1])))


(* is_valid_ident: the names the sources are written with are identifiers, *)
(* other text is not.                                                      *)
Identifiers == {"a", "b", "c", "f", "g", "x", "y"}
is_valid_ident(text) == text \in Identifiers

(* RantParser::parse_access_path_kind: the carets that follow the first. *)
RECURSIVE descope_count(_, _)
descope_count(p, count) ==
  IF peek(p).t = "Caret" THEN descope_count(next(p), count + 1)
  ELSE [p |-> p, kind |-> Descope(count)]

parse_access_path_kind(p) ==
  CASE peek(p).t = "Slash" -> [p |-> next(p), kind |-> ExplicitGlobal]
    [] peek(p).t = "Caret" -> descope_count(next(p), 1)
    [] OTHER -> [p |-> p, kind |-> Local]

(* RantParser::parse_accessor *)
AccessorFrame == [NoParseFrame EXCEPT !.fn = "parse_accessor"]
PathFrame(allow_anonymous) ==
  [NoParseFrame EXCEPT !.fn = "parse_access_path", !.allow_anonymous = allow_anonymous]

(* add_accessor!, the accessor read next and the return of the accessors. *)
add_accessor(p, rst) ==
  LET q == do_capture_pass(p, rst)
  IN set_top(q, [top(q) EXCEPT !.items = Append(@, rst), !.st = ""])
accessor_return(p) ==
  return(p, [NoRet EXCEPT !.some = TRUE, !.nodes = top(p).items, !.end = "Accessor"])
awaits(p, st) == set_top(p, [top(p) EXCEPT !.st = st])

SequenceAccessor ==
  /\ AtWork("parse_sequence", "")
  /\ peek(Cur).t = "LeftAngle"
  /\ Commit(call(next(Cur), AccessorFrame))

(* parse_accessor: the start of an accessor of the chain. A definition is  *)
(* read up to its value, of another accessor the path is read.             *)
AccessorRead ==
  /\ AtWork("parse_accessor", "")
  /\ LET start == skip_ws(Cur)
         token == peek(start)
     IN Commit(
          IF Len(top(Cur).items) > 0 /\ token.t = "RightAngle"
          THEN accessor_return(next(start))
          ELSE IF token.t = "Dollar"
          THEN LET kinded == LET read == parse_access_path_kind(skip_ws(next(start)))
                             IN [p |-> skip_ws(read.p), kind |-> read.kind]
                   access_kind == kinded.kind
                   ident == peek(kinded.p)
                   named == IF is_valid_ident(ident.s) THEN skip_ws(next(kinded.p))
                            ELSE skip_ws(syntax_error(next(kinded.p), "InvalidIdentifier"))
                   after == peek(named)
                   p == next(named)
                   var_def == Rst_VarDef(ident.s, access_kind, <<>>)
               IN CASE ident.t = "None" -> hard_error(kinded.p, "MissingIdentifier")
                    [] ident.t \notin {"None", "Fragment"} ->
                         hard_error(next(kinded.p), "UnexpectedToken")
                    [] ident.t = "Fragment" /\ after.t = "RightAngle" ->
                         accessor_return(add_accessor(p, var_def))
                    [] ident.t = "Fragment" /\ after.t = "Semi" -> add_accessor(p, var_def)
                    [] ident.t = "Fragment" /\ after.t = "Equals" ->
                         parse_sequence(
                           skip_ws(set_top(p, [top(p) EXCEPT !.st = "def", !.id = ident.s,
                                                             !.kind = access_kind])),
                           "VariableAssignment")
                    [] ident.t = "Fragment" /\ after.t = "None" -> hard_error(p, "UnclosedVariableAccess")
                    [] OTHER -> hard_error(p, "UnexpectedToken")
          ELSE call(awaits(start, "path"), PathFrame(TRUE)))

(* parse_accessor: the token after the path of a getter or setter. *)
AccessorPath ==
  /\ Resumes("parse_accessor", {"path"})
  /\ LET var_path == parse_ret.path
         token == peek(skip_ws(Cur))
         p == next(skip_ws(Cur))
         var_get == Rst_VarGet(var_path, <<>>)
     IN Commit(
          CASE token.t = "RightAngle" -> accessor_return(add_accessor(p, var_get))
            [] token.t = "Semi" -> add_accessor(p, var_get)
            [] token.t = "Question" ->
                 parse_sequence(
                   skip_ws(set_top(p, [top(p) EXCEPT !.st = "fallback", !.path = var_path])),
                   "AccessorFallbackValue")
            [] token.t = "Equals" ->
                 parse_sequence(
                   skip_ws(set_top(p, [top(p) EXCEPT !.st = "set", !.path = var_path])),
                   "VariableAssignment")
            [] token.t = "None" -> hard_error(p, "UnclosedVariableAccess")
            [] OTHER -> hard_error(p, "UnexpectedToken"))

(* parse_accessor: the value of a definition or setter, or the fallback of *)
(* a getter, has been read.                                                *)
AccessorValue ==
  /\ Resumes("parse_accessor", {"def", "set", "fallback"})
  /\ LET frame == top(Cur)
         expr == parse_ret.nodes
         checked ==
           IF frame.st = "set" /\ is_anonymous(frame.path) /\ Len(frame.path.parts) = 1
           THEN syntax_error(Cur, "AnonValueAssignment")
           ELSE Cur
         rst == CASE frame.st = "def" -> Rst_VarDef(frame.id, frame.kind, <<expr>>)
                  [] frame.st = "set" -> Rst_VarSet(frame.path, expr)
                  [] OTHER -> Rst_VarGet(frame.path, <<expr>>)
         p == add_accessor(checked, rst)
     IN Commit(
          CASE parse_ret.end \in {"VariableAssignDelim", "AccessorFallbackValueToDelim"} -> p
            [] parse_ret.end \in {"VariableAccessEnd", "AccessorFallbackValueToEnd"} ->
                 accessor_return(p)
            [] OTHER -> hard_error(p, "UnclosedVariableAccess"))

(* RantParser::parse_access_path *)
push_part(p, part) == set_top(p, [top(p) EXCEPT !.items = Append(@, part), !.st = "rest"])

(* A component of the path is read with next_solid: the first one         *)
(* (in_rest FALSE) or one after a slash.                                   *)
read_part(p, in_rest) ==
  LET token == peek(skip_ws(p))
      q == awaits(next(skip_ws(p)), "rest")
  IN CASE token.t = "Fragment" ->
            IF is_valid_ident(token.s)
            THEN push_part(q, AccessPathComponent_Name(token.s))
            ELSE syntax_error(q, "InvalidIdentifier")
       [] token.t = "LeftBrace" -> parse_sequence(awaits(q, "key"), "DynamicKey")
       [] token.t = "Integer" ->
            IF in_rest THEN push_part(q, AccessPathComponent_Index(token.n))
            ELSE syntax_error(q, "LocalPathStartsWithIndex")
       [] token.t = "None" -> hard_error(q, "MissingIdentifier")
       [] OTHER -> syntax_error(q, "InvalidIdentifier")

PathStart ==
  /\ AtWork("parse_access_path", "")
  /\ Commit(
       IF top(Cur).allow_anonymous /\ peek(skip_ws(Cur)).t = "Bang"
       THEN parse_sequence(awaits(skip_ws(next(skip_ws(Cur))), "anon"), "SingleItem")
       ELSE LET kinded == parse_access_path_kind(skip_ws(Cur))
            IN read_part(set_top(kinded.p, [top(kinded.p) EXCEPT !.kind = kinded.kind]),
                         FALSE))

PathRest ==
  /\ AtWork("parse_access_path", "rest")
  /\ Commit(
       IF peek(skip_ws(Cur)).t = "Slash"
       THEN read_part(next(skip_ws(Cur)), TRUE)
       ELSE return(skip_ws(Cur),
                   [NoRet EXCEPT !.some = TRUE,
                                 !.path = AccessPath_new(top(Cur).items, top(Cur).kind)]))

(* parse_access_path: the anonymous value, or the dynamic key              *)
(* (parse_dynamic_key), has been read.                                     *)
PathResume ==
  /\ Resumes("parse_access_path", {"anon", "key"})
  /\ LET expr == parse_ret.nodes
     IN Commit(
          CASE top(Cur).st = "anon" /\ parse_ret.end = "SingleItemEnd" ->
                 push_part(Cur, AccessPathComponent_AnonymousValue(expr))
            [] top(Cur).st = "anon" /\ parse_ret.end # "SingleItemEnd" ->
                 hard_error(Cur, "UnclosedVariableAccess")
            [] top(Cur).st = "key" /\ parse_ret.end = "DynamicKeyEnd" ->
                 push_part(Cur, AccessPathComponent_DynamicKey(expr))
            [] OTHER -> hard_error(Cur, "UnclosedBlock"))


(* Varity::is_valid_order: required, then optional, then variadic. *)
is_valid_order(first, second) ==
  \/ first = "Required"
  \/ first = "Optional" /\ second # "Required"

(* RantParser::parse_func_access *)
FuncFrame(st) == [NoParseFrame EXCEPT !.fn = "parse_func_access", !.st = st]
ParamsFrame == [NoParseFrame EXCEPT !.fn = "parse_func_params"]

SequenceFuncAccess ==
  /\ AtWork("parse_sequence", "")
  /\ peek(Cur).t = "LeftBracket"
  /\ LET p == next(Cur)
     IN Commit(
          CASE peek(p).t = "Dollar" ->
                 call(call(next(p), FuncFrame("def_id")), PathFrame(FALSE))
            [] peek(p).t = "Question" ->
                 call(call(next(p), [FuncFrame("closure_params") EXCEPT !.is_closure = TRUE]),
                      ParamsFrame)
            [] peek(p).t = "Bang" ->
                 parse_sequence(
                   call(next(p), [FuncFrame("anon_expr") EXCEPT !.is_anonymous = TRUE]),
                   "AnonFunctionExpr")
            [] OTHER -> call(call(p, FuncFrame("call_id")), PathFrame(FALSE)))

(* parse_func_access: the path of a function definition has been read. *)
FuncDefId ==
  /\ Resumes("parse_func_access", {"def_id"})
  /\ Commit(call(set_top(Cur, [top(Cur) EXCEPT !.st = "def_params",
                                               !.path = parse_ret.path]),
                 ParamsFrame))

(* The names of a parameter list. *)
param_names(params) == {params[i].name : i \in 1..Len(params)}

(* RantParser::parse_func_body, up to the body: a capture frame, and a     *)
(* layer of var_stack that holds the parameters.                           *)
FuncBody ==
  /\ Resumes("parse_func_access", {"def_params", "closure_params"})
  /\ LET params == parse_ret.params
         capture_height == depth(var_stack)
         visible == NamesBelow(var_stack, capture_height)
         layers == Append(var_stack, param_names(params))
         p == set_top(next(Cur), [top(Cur) EXCEPT !.st = "body", !.params = params])
     IN Commit(
          IF peek(Cur).t # "LeftBrace"
          THEN hard_error(Cur, "ExpectedToken")
          ELSE call([p EXCEPT !.capture_stack = Append(@, CaptureFrame(capture_height, visible)),
                              !.var_stack = layers],
                    SequenceFrame("FunctionBody", FALSE)))

(* parse_func_body, after the body, and the node of the definition or      *)
(* closure.                                                                *)
FuncBodyEnd ==
  /\ Resumes("parse_func_access", {"body"})
  /\ LET frame == top(Cur)
         body == parse_ret.nodes
         capture_set == capture_stack[Len(capture_stack)].captures
         rst == IF frame.is_closure THEN Rst_Closure(frame.params, body, capture_set)
                ELSE Rst_FuncDef(frame.path, frame.params, body, capture_set)
         p == [Cur EXCEPT !.var_stack = pop_layer(@),
                          !.capture_stack = SubSeq(@, 1, Len(@) - 1)]
     IN Commit(
          IF parse_ret.end = "FunctionBodyEnd"
          THEN return(p, [NoRet EXCEPT !.some = TRUE, !.nodes = <<rst>>, !.end = "FuncAccess"])
          ELSE hard_error(p, "UnclosedBlock"))

(* parse_func_access: the call is complete. A named call goes through the  *)
(* capture pass.                                                           *)
call_return(p) ==
  LET frame == top(p)
      rst == IF frame.is_anonymous THEN Rst_AnonFuncCall(frame.sequence, frame.items)
             ELSE Rst_FuncCall(frame.path, frame.items)
      q == IF frame.is_anonymous THEN p ELSE do_capture_pass(p, rst)
  IN return(q, [NoRet EXCEPT !.some = TRUE, !.nodes = <<rst>>, !.end = "FuncAccess"])

(* parse_func_access: the path of a named call, or the function expression *)
(* of an anonymous call, has been read.                                    *)
FuncCallee ==
  /\ Resumes("parse_func_access", {"call_id", "anon_expr"})
  /\ LET named == set_top(next(Cur), [top(Cur) EXCEPT !.st = "args", !.path = parse_ret.path])
         anon == set_top(Cur, [top(Cur) EXCEPT !.st = "args", !.sequence = parse_ret.nodes])
     IN Commit(
          IF top(Cur).st = "call_id"
          THEN CASE peek(Cur).t = "RightBracket" -> call_return(named)
                 [] peek(Cur).t = "Colon" -> parse_sequence(named, "FunctionArg")
                 [] peek(Cur).t = "None" -> hard_error(named, "UnclosedFunctionCall")
                 [] OTHER -> hard_error(named, "UnexpectedToken")
          ELSE CASE parse_ret.end = "AnonFunctionExprNoArgs" -> call_return(anon)
                 [] parse_ret.end = "AnonFunctionExprToArgs" -> parse_sequence(anon, "FunctionArg")
                 [] OTHER -> panic(anon))

(* parse_args!: an argument has been read. *)
FuncCallArg ==
  /\ Resumes("parse_func_access", {"args"})
  /\ LET p == set_top(Cur, [top(Cur) EXCEPT !.items = Append(@, parse_ret.nodes)])
     IN Commit(
          CASE parse_ret.end = "FunctionArgEndNext" -> parse_sequence(p, "FunctionArg")
            [] parse_ret.end = "FunctionArgEndBreak" -> call_return(p)
            [] OTHER -> hard_error(p, "UnclosedFunctionCall"))

(* RantParser::parse_func_params: the token after the path or the ?. *)
ParamsStart ==
  /\ AtWork("parse_func_params", "")
  /\ LET p == next(Cur)
     IN Commit(
          CASE peek(Cur).t = "Colon" -> awaits(p, "read")
            [] peek(Cur).t = "RightBracket" -> return(p, [NoRet EXCEPT !.some = TRUE])
            [] peek(Cur).t = "None" -> hard_error(p, "UnclosedFunctionSignature")
            [] OTHER -> hard_error(p, "UnexpectedToken"))

(* parse_func_params: the varity a token stands for. *)
varity_of(token) ==
  CASE token.t = "Question" -> "Optional"
    [] token.t = "Star" -> "VariadicStar"
    [] token.t = "Plus" -> "VariadicPlus"
    [] OTHER -> "Required"

(* parse_func_params: the check for varity issues of a parameter. *)
check_varityBad(p, is_sig_variadic, last_varity, varity) == p

check_varity(p, is_sig_variadic, last_varity, varity) ==
  IF is_sig_variadic /\ Varity_is_variadic(varity)
  THEN syntax_error(p, "MultipleVariadicParams")
  ELSE IF ~is_valid_order(last_varity, varity)
  THEN syntax_error(p, "InvalidParamOrder")
  ELSE p

(* parse_func_params: an iteration of 'read_params. *)
ParamsRead ==
  /\ AtWork("parse_func_params", "read")
  /\ LET token == peek(Cur)
         frame == top(Cur)
         named == next(Cur)
         param_name == token.s
         has_varity == peek(named).t \in {"Question", "Star", "Plus"}
         varity == varity_of(peek(named))
         is_param_variadic == Varity_is_variadic(varity)
         p0 == IF has_varity THEN next(named) ELSE named
         p1 == IF is_valid_ident(param_name) THEN p0
               ELSE syntax_error(p0, "InvalidIdentifier")
         p2 == IF param_name \in frame.params_set
               THEN syntax_error(p1, "DuplicateParameter")
               ELSE p1
         p3 == check_varity(p2, frame.is_sig_variadic, frame.last_varity, varity)
         pushed == [frame EXCEPT
                      !.params = Append(@, Parameter(param_name, varity)),
                      !.params_set = @ \cup {param_name},
                      !.last_varity = varity,
                      !.is_sig_variadic = @ \/ is_param_variadic]
         delimiter == peek(p3)
         p == set_top(next(p3), pushed)
         done(q) == return(q, [NoRet EXCEPT !.some = TRUE, !.params = top(q).params])
     IN Commit(
          CASE token.t = "Fragment" /\ delimiter.t = "Semi" -> p
            [] token.t = "Fragment" /\ delimiter.t = "RightBracket" -> done(p)
            [] token.t = "Fragment" /\ delimiter.t = "None" ->
                 hard_error(p, "UnclosedFunctionSignature")
            [] token.t = "Fragment" /\ delimiter.t \notin {"Semi", "RightBracket", "None"} ->
                 hard_error(p, "UnexpectedToken")
            [] token.t = "RightBracket" -> done(syntax_error(named, "MissingIdentifier"))
            [] token.t = "None" -> hard_error(named, "UnclosedFunctionSignature")
            [] OTHER -> syntax_error(named, "InvalidIdentifier"))


(***************************************************************************)
(* Specification SpecParse: the parser compiles one source. The sources    *)
(* are functions whose bodies hold accessors, calls, blocks and closures   *)
(* of the names x and y; closures with up to MaxParams parameters of every *)
(* varity; accessors, calls and function definitions with paths of up to   *)
(* MaxPath components; and sources that end early.                         *)
(***************************************************************************)

(* The concatenations of up to n members of a set of token sequences. *)
RECURSIVE Concats(_, _)
Concats(S, n) ==
  IF n = 0 THEN {<<>>}
  ELSE LET shorter == Concats(S, n - 1)
       IN shorter \cup {a \o b : a \in S, b \in shorter}

(* <x>  </x>  <$x>  <$^x>  <x = 1>  [x]  {..}  [?: params]{..}  [$f: params]{..} *)
SrcGet(name) == <<Tok("LeftAngle"), Fragment(name), Tok("RightAngle")>>
SrcGlobalGet(name) == <<Tok("LeftAngle"), Tok("Slash"), Fragment(name), Tok("RightAngle")>>
SrcDef(name) == <<Tok("LeftAngle"), Tok("Dollar"), Fragment(name), Tok("RightAngle")>>
SrcDefParent(name) ==
  <<Tok("LeftAngle"), Tok("Dollar"), Tok("Caret"), Fragment(name), Tok("RightAngle")>>
SrcSet(name) ==
  <<Tok("LeftAngle"), Fragment(name), Tok("Equals"), Integer(1), Tok("RightAngle")>>
SrcCall(name) == <<Tok("LeftBracket"), Fragment(name), Tok("RightBracket")>>
SrcBlock(body) == <<Tok("LeftBrace")>> \o body \o <<Tok("RightBrace")>>
SrcSignature(params) ==
  IF Len(params) = 0 THEN <<>> ELSE <<Tok("Colon")>> \o Tail(params)
SrcClosure(params, body) ==
  <<Tok("LeftBracket"), Tok("Question")>> \o SrcSignature(params)
    \o <<Tok("RightBracket")>> \o SrcBlock(body)
SrcFuncDef(path, params, body) ==
  <<Tok("LeftBracket"), Tok("Dollar")>> \o path \o SrcSignature(params)
    \o <<Tok("RightBracket")>> \o SrcBlock(body)
(* ; name varity: a parameter as params of SrcSignature holds it. *)
SrcParam(name, varity) ==
  <<Tok("Semi"), Fragment(name)>>
    \o CASE varity = "Optional" -> <<Tok("Question")>>
         [] varity = "VariadicStar" -> <<Tok("Star")>>
         [] varity = "VariadicPlus" -> <<Tok("Plus")>>
         [] OTHER -> <<>>

(* Function bodies: up to MaxItems accessors and calls, and the same       *)
(* inside a block or a closure, between other accessors.                   *)
BodyItems ==
  {SrcGet("x"), SrcGet("y"), SrcGlobalGet("x"), SrcDef("x"), SrcDefParent("x"),
   SrcSet("x"), SrcCall("x")}
FlatBodies == Concats(BodyItems, MaxItems)
NestedBodies ==
  {before \o inner \o after :
     before \in {<<>>, SrcDef("x")},
     after \in {<<>>, SrcGet("x")},
     inner \in {SrcBlock(body) : body \in FlatBodies}
               \cup {SrcClosure(<<>>, body) : body \in FlatBodies}
               \cup {SrcClosure(SrcParam("x", "Required"), body) : body \in FlatBodies}}
CaptureSources ==
  {before \o function :
     before \in {<<>>, SrcDef("x")},
     function \in {SrcClosure(<<>>, body) : body \in FlatBodies \cup NestedBodies}
                  \cup {SrcFuncDef(<<Fragment("f")>>, SrcParam("x", "Required"), body) :
                          body \in FlatBodies \cup NestedBodies}}

(* Closures with up to MaxParams parameters of every varity; the i-th is   *)
(* named by its position or, again, a.                                     *)
ParamName(i) == <<"a", "b", "c", "f", "g", "x", "y">>[i]
RECURSIVE SrcParams(_)
SrcParams(n) ==
  IF n = 0 THEN {<<>>}
  ELSE {params \o SrcParam(name, varity) :
          params \in SrcParams(n - 1), name \in {ParamName(n), "a"}, varity \in Varity}
ParamSources == {SrcClosure(params, <<>>) : params \in UNION {SrcParams(n) : n \in 1..MaxParams}}

(* Paths of up to MaxPath components: a name, an index or a dynamic key,   *)
(* after nothing, /, ^, ^^ or an anonymous value; the path of an accessor, *)
(* a setter, a getter with a fallback, a call or a function definition.    *)
SrcParts == {<<Fragment("x")>>, <<Integer(0)>>, SrcBlock(<<Fragment("x")>>)}
SrcRests == Concats({<<Tok("Slash")>> \o part : part \in SrcParts}, MaxPath - 1)
SrcPaths ==
  {first \o rest :
     first \in {kind \o part : kind \in {<<>>, <<Tok("Slash")>>, <<Tok("Caret")>>,
                                          <<Tok("Caret"), Tok("Caret")>>},
                                part \in SrcParts \cup {<<>>}}
               \cup {<<Tok("Bang"), Fragment("x")>>, <<Tok("Bang")>> \o SrcBlock(<<Fragment("x")>>)},
     rest \in SrcRests}
PathSources ==
  UNION {{<<Tok("LeftAngle")>> \o path \o <<Tok("RightAngle")>>,
          <<Tok("LeftAngle")>> \o path \o <<Tok("Equals"), Integer(1), Tok("RightAngle")>>,
          <<Tok("LeftAngle")>> \o path \o <<Tok("Question"), Integer(1), Tok("Semi")>>
            \o SrcGet("x"),
          <<Tok("LeftBracket")>> \o path \o <<Tok("RightBracket")>>,
          <<Tok("LeftBracket")>> \o path \o <<Tok("Colon"), Integer(1), Tok("Semi"),
                                             Integer(2), Tok("RightBracket")>>,
          SrcFuncDef(path, <<>>, <<>>)} : path \in SrcPaths}

(* Sources that end early or hold a token out of place. *)
BrokenSources ==
  {<<Tok("LeftBracket"), Tok("Question"), Tok("Colon"), Fragment("a")>>,
   <<Tok("LeftBracket"), Tok("Question"), Tok("Colon"), Tok("RightBracket"),
     Tok("LeftBrace"), Tok("RightBrace")>>,
   <<Tok("LeftBracket"), Tok("Question"), Tok("Colon"), Integer(1), Fragment("a"),
     Tok("RightBracket"), Tok("LeftBrace"), Tok("Pipe"), Tok("RightBrace")>>,
   <<Tok("LeftBracket"), Tok("Question"), Tok("RightBracket"), Fragment("x")>>,
   <<Tok("LeftBracket"), Tok("Question"), Tok("RightBracket"), Tok("LeftBrace")>>,
   <<Tok("LeftBracket"), Tok("Bang"), Fragment("x")>>,
   <<Tok("LeftBracket"), Tok("Bang"), Fragment("f"), Tok("Colon"), Integer(1),
     Tok("RightBracket")>>,
   <<Tok("LeftBracket"), Fragment("x"), Tok("Colon"), Integer(1)>>,
   <<Tok("LeftAngle"), Tok("Dollar"), Tok("RightAngle")>>,
   <<Tok("LeftAngle"), Tok("Dollar"), Fragment("x"), Tok("Equals"), Integer(1),
     Tok("Semi"), Fragment("x"), Tok("Semi"), Tok("Dollar"), Fragment("y"), Tok("Semi"),
     Tok("RightAngle")>>,
   <<Tok("LeftAngle"), Fragment("x"), Tok("Equals"), Integer(1)>>,
   <<Tok("LeftAngle"), Fragment("x")>>,
   <<Tok("Star"), Tok("LeftBrace"), Fragment("x"), Tok("Pipe"), Tok("Colon"),
     Tok("Semi"), Tok("RightBrace")>>,
   <<Tok("Star"), Fragment("x")>>,
   <<Tok("LeftBrace"), Fragment("x"), Fragment("y")>>,
   <<Tok("RightBrace"), Tok("RightAngle"), Tok("RightBracket"), Tok("Pipe"), Tok("Caret"),
     Tok("Bang"), Tok("Dollar")>>}

(* Sources with whitespace: up to MaxSpaced of a, a space, <$x>, <x = 1>   *)
(* and <x> in a row, as the lexer reads them (a run of spaces or of text   *)
(* is one token); the two definitions and the sum that follow them; and    *)
(* whitespace around a function definition, a call, blocks and the         *)
(* delimiter of a block.                                                   *)
Space == Tok("Whitespace")
SpacedItems == {<<Fragment("a")>>, <<Space>>, SrcDef("x"), SrcSet("x"), SrcGet("x")}
Lexed(src) ==
  \A i \in 1..(Len(src) - 1) :
    ~(src[i].t = src[i + 1].t /\ src[i].t \in {"Whitespace", "Fragment"})
SpacedSources == {src \in Concats(SpacedItems, MaxSpaced) : Lexed(src)}
SrcDefTo(name, k) ==
  <<Tok("LeftAngle"), Tok("Dollar"), Fragment(name), Space, Tok("Equals"), Space,
    Integer(k), Tok("RightAngle")>>
SumSource ==
  SrcDefTo("x", 2) \o <<Space>> \o SrcDefTo("y", 3) \o <<Space>>
    \o SrcGet("x") \o <<Tok("Plus")>> \o SrcGet("y")
SpacedConstructs ==
  {<<Fragment("a"), Space>> \o SrcFuncDef(<<Fragment("f")>>, <<>>, <<>>)
     \o <<Space, Fragment("b")>>,
   <<Fragment("a"), Space>> \o SrcCall("f") \o <<Space, Fragment("b")>>,
   <<Fragment("a"), Space>> \o SrcBlock(<<Fragment("b"), Space, Tok("Pipe"), Space,
                                          Fragment("c"), Space>>)
     \o <<Space, Fragment("b")>>,
   <<Fragment("a"), Space, Tok("Star"), Space>> \o SrcBlock(<<Fragment("b")>>)
     \o <<Space, Fragment("b")>>,
   <<Tok("LeftAngle"), Space, Tok("Dollar"), Space, Fragment("x"), Space, Tok("Semi"),
     Space, Fragment("x"), Space, Tok("Slash"), Space, Fragment("y"), Space,
     Tok("Question"), Space, Fragment("a"), Space, Tok("RightAngle")>>}

Sources ==
  CaptureSources \cup ParamSources \cup PathSources \cup BrokenSources
    \cup SpacedSources \cup {SumSource} \cup SpacedConstructs

(* RantParser::new *)
InitParse ==
  /\ tokens \in Sources
  /\ reader = 0
  /\ var_stack = ScopeSet_default
  /\ capture_stack = <<>>
  /\ has_errors = FALSE
  /\ reporter = {}
  /\ parse_stack = <<>>
  /\ parse_ret = NoRet
  /\ parse_result = "idle"
  /\ ResIdle
  /\ VmIdle
  /\ sel = Selector_new("Random")
  /\ sel_last = NoCall
  /\ sel_rets = <<>>
  /\ block = NoBlock
  /\ blk_acts = <<>>

NextParse ==
  \/ ParseStart
  \/ ParseFinish
  \/ SequenceItem
  \/ SequenceWhitespace
  \/ SequenceDelimiter
  \/ SequenceEnd
  \/ SequenceBlock
  \/ BlockElement
  \/ SequenceResume
  \/ SequenceAccessor
  \/ AccessorRead
  \/ AccessorPath
  \/ AccessorValue
  \/ PathStart
  \/ PathRest
  \/ PathResume
  \/ SequenceFuncAccess
  \/ FuncDefId
  \/ FuncBody
  \/ FuncBodyEnd
  \/ FuncCallee
  \/ FuncCallArg
  \/ ParamsStart
  \/ ParamsRead

SpecParse == InitParse /\ [][NextParse]_vars

(***************************************************************************)
(* The syntax tree the parser has produced                                 *)
(***************************************************************************)

(* The nodes of a sequence, at any depth: in the sequences its nodes own   *)
(* and in the dynamic keys and anonymous values of their paths.            *)
RECURSIVE NodesIn(_)
NodesIn(sequence) ==
  UNION {{sequence[i]}
         \cup UNION {NodesIn(sequence[i].exprs[j]) : j \in 1..Len(sequence[i].exprs)}
         \cup UNION {NodesIn(sequence[i].path.parts[j].expr) :
                       j \in 1..Len(sequence[i].path.parts)} :
         i \in 1..Len(sequence)}

(* The function definitions and closures among the nodes handed back last: *)
(* the one just read, or those of the whole program once it is read.       *)
FunctionsRead == {rst \in NodesIn(parse_ret.nodes) : rst.k \in {"FuncDef", "Closure"}}

(* The name a getter, a setter or a named call refers to with a Local      *)
(* path, if any.                                                           *)
LocalName(rst) ==
  IF rst.k \in {"VarGet", "VarSet", "FuncCall"} /\ is_local(rst.path.kind)
  THEN capture_var_name(rst.path)
  ELSE {}

(* The names a node defines, at any depth. *)
DefinedIn(rst) == {def.s : def \in {node \in NodesIn(<<rst>>) : node.k = "VarDef"}}

(* The names that the nodes i, i + 1, .. of a sequence refer to with a     *)
(* Local path, at any depth, and that are not bound: a name is bound by a  *)
(* parameter of a function around the reference and by any definition      *)
(* written before the reference.                                           *)
RECURSIVE FreeNames(_, _, _)
FreeNames(sequence, i, bound) ==
  IF i > Len(sequence) THEN {}
  ELSE LET rst == sequence[i]
           inner == bound \cup param_names(rst.params)
                          \cup (IF rst.k = "VarDef" THEN {rst.s} ELSE {})
       IN (LocalName(rst) \ bound)
          \cup UNION {FreeNames(rst.exprs[j], 1, inner) : j \in 1..Len(rst.exprs)}
          \cup UNION {FreeNames(rst.path.parts[j].expr, 1, bound) :
                        j \in 1..Len(rst.path.parts)}
          \cup FreeNames(sequence, i + 1, bound \cup DefinedIn(rst))

(* C16 as stated: in a program that parses, the capture set of a function  *)
(* holds every name that its body refers to with a Local path, at any      *)
(* depth, and that is neither a parameter nor defined in the body before   *)
(* the reference; it holds no parameter.                                   *)
C16_FreeNamesCaptured ==
  parse_result = "Ok" =>
    \A f \in FunctionsRead :
      /\ FreeNames(f.exprs[1], 1, param_names(f.params)) \subseteq f.capture_vars
      /\ f.capture_vars \cap param_names(f.params) = {}

(* C17 as stated: when the body of a function has been read, every name in *)
(* its capture set was defined in an enclosing scope when the body began.  *)
C17_Original ==
  Resumes("parse_func_access", {"body"}) =>
    capture_stack[Len(capture_stack)].captures
      \subseteq capture_stack[Len(capture_stack)].visible

(* C17: every name in the capture set of a function or closure that the    *)
(* parser has produced is a name that a getter, a setter or a named call   *)
(* in the body refers to with a Local path, and is no parameter of the     *)
(* function; it need not be defined in any scope.                          *)
C17_CapturedAreReferenced ==
  \A f \in FunctionsRead :
    \A id \in f.capture_vars :
      /\ id \notin param_names(f.params)
      /\ \E rst \in NodesIn(f.exprs[1]) : LocalName(rst) = {id}

C17_Witness ==
  /\ parse_result = "Ok"
  /\ \E f \in FunctionsRead :
       /\ f.k = "FuncDef"
       /\ param_names(f.params) = {"x"}
       /\ f.capture_vars = {"y"}
       /\ Len(f.exprs[1]) = 2
       /\ LocalName(f.exprs[1][1]) = {"x"}
       /\ LocalName(f.exprs[1][2]) = {"y"}
  /\ Len(parse_ret.nodes) = 1

(* The varity order of a parameter list: required, then optional, then at  *)
(* most one variadic parameter, and no name twice.                         *)
VarityRank(varity) ==
  CASE varity = "Required" -> 0
    [] varity = "Optional" -> 1
    [] OTHER -> 2
ValidSignature(params) ==
  /\ \A i, j \in 1..Len(params) :
       i < j => /\ params[i].name # params[j].name
                /\ VarityRank(params[i].varity) <= VarityRank(params[j].varity)
  /\ Cardinality({i \in 1..Len(params) : Varity_is_variadic(params[i].varity)}) <= 1

(* C18: the parameter lists of a program that parses are in varity order   *)
(* without duplicates; a parameter list that is not has DuplicateParameter,*)
(* MultipleVariadicParams or InvalidParamOrder reported when it is read,   *)
(* and a compile with a reported problem does not succeed.                 *)
C18_Signatures ==
  /\ parse_result = "Ok" =>
       /\ reporter = {} /\ ~has_errors
       /\ \A f \in FunctionsRead : ValidSignature(f.params)
  /\ (/\ Resumes("parse_func_access", {"def_params", "closure_params"})
      /\ ~ValidSignature(parse_ret.params)) =>
       /\ reporter \cap {"DuplicateParameter", "MultipleVariadicParams",
                         "InvalidParamOrder"} # {}
       /\ has_errors

C18_Witness ==
  /\ parse_result = "Ok"
  /\ \E f \in FunctionsRead :
       f.params = <<Parameter("a", "Required"), Parameter("b", "Optional"),
                    Parameter("c", "VariadicPlus")>>

(* C19: in a program that parses, the path of every getter, setter, named  *)
(* call and function definition has a first component, which is a name, a  *)
(* dynamic key or an anonymous value; an anonymous value is the first      *)
(* component of the path of a getter or a setter, and nothing else.        *)
C19_Paths ==
  parse_result = "Ok" =>
    \A rst \in {node \in NodesIn(parse_ret.nodes) :
                  node.k \in {"VarGet", "VarSet", "FuncCall", "FuncDef"}} :
      LET parts == rst.path.parts
      IN /\ Len(parts) > 0
         /\ parts[1].c \in {"Name", "DynamicKey", "AnonymousValue"}
         /\ \A i \in 2..Len(parts) : parts[i].c \in {"Name", "DynamicKey", "Index"}
         /\ rst.k \in {"FuncCall", "FuncDef"} => parts[1].c # "AnonymousValue"

C19_Witness ==
  /\ parse_result = "Ok"
  /\ \E rst \in NodesIn(parse_ret.nodes) :
       /\ rst.k = "VarGet"
       /\ Len(rst.path.parts) = 3
       /\ rst.path.parts[1].c = "AnonymousValue"
       /\ rst.path.parts[2].c = "Index"
       /\ rst.path.parts[3].c = "DynamicKey"


(* C21 as stated: when parse has ended, it has returned Ok exactly when no  *)
(* problem was reported during parsing, and otherwise it has returned Err   *)
(* with at least one problem reported.                                     *)
C21_OkIffNoProblem ==
  parse_result \notin {"idle", "parsing"} =>
    /\ parse_result = "Ok" <=> reporter = {}
    /\ parse_result # "Ok" => parse_result = "Err" /\ has_errors


(***************************************************************************)
(* Specification SpecDet: the two places where the RNG is consulted. With  *)
(* no program loaded the resolver steps a block (SpecBlock); with a        *)
(* program loaded the VM runs it (SpecRun), selecting the element of each  *)
(* block it enters with rng.next_usize.                                    *)
(***************************************************************************)

(* The programs of SpecDet: a definition of x and a statement that enters  *)
(* blocks, calls a function or walks a path with at most one dynamic key.  *)
DetPaths ==
  {<<NameKey("x")>>, <<NameKey("y")>>, <<NameKey("x"), IndexKey(0)>>,
   <<NameKey("x"), NameKey("k")>>}
  \cup KeyPaths(1) \cup {<<NameKey("x")>> \o path : path \in KeyPaths(1)}

DetStatements ==
  {second \in RunStatements :
     \/ second.k \in {"Block", "AnonFuncCall", "ListInit", "MapInit"}
     \/ second.k \in {"VarGet", "VarSet", "FuncDef", "FuncCall"} /\ second.path \in DetPaths}

InitDetRun ==
  \E first \in RunInits, second \in DetStatements :
    InitVM(<<VarDefNode("x", first), second>>, <<>>)

(* The blocks of SpecDet: up to MaxLen elements, any repetitions and any  *)
(* selector, fresh or used once by a block of up to MaxLen elements.       *)
InitDetBlock ==
  /\ \E reps \in RepsValues, cv \in {"None", "True", "False"},
        hs \in BOOLEAN, len \in 1..MaxLen :
       block = BlockState_new(
                 [AttributeFrame_default EXCEPT !.reps = reps, !.condval = cv,
                                                !.selector = IF hs THEN 1 ELSE 0],
                 len)
  /\ sel \in (IF has_selector(block.attrs)
              THEN {Selector_new(m) : m \in SelectorMode}
                   \cup UNION {UsedOnce(m, c) : m \in SelectorMode, c \in 1..MaxLen}
              ELSE {Selector_new("Random")})
  /\ sel_last = NoCall
  /\ sel_rets = <<>>
  /\ blk_acts = <<>>
  /\ VmIdle
  /\ ResIdle
  /\ ParseIdle

InitDet == InitDetBlock \/ InitDetRun

NextDet ==
  \/ program = <<>> /\ NextBlock
  \/ program # <<>> /\ NextRun

SpecDet == InitDet /\ [][NextDet]_vars

(* What the RNG decides in a step of the VM: the element sequences that    *)
(* the frames of the call stack run.                                       *)
FrameSequences == [k \in 1..Len(call_stack) |-> call_stack[k].sequence]

(* A step of the resolver with the RNG delivering draws has one outcome:   *)
(* no other step from the same state with the same draws is possible.      *)
ResolverStepDetermined ==
  \A draws \in BlockDraws(block, sel) :
    (program = <<>> /\ NextElementWith(draws)) =>
      \A outcome \in {vars'} :
        ~ENABLED (NextElementWith(draws) /\ vars' # outcome)

(* A step of the VM has one outcome for each choice of element sequences:  *)
(* no other step from the same state leaves the same sequences on the call *)
(* stack and differs in anything else.                                     *)
VMStepDetermined ==
  program # <<>> =>
    \A outcome \in {[sequences |-> FrameSequences', state |-> vars']} :
      ~ENABLED (/\ NextRun
                /\ FrameSequences' = outcome.sequences
                /\ vars' # outcome.state)

(* C22: two runs from the same state to which the RNG delivers the same    *)
(* values take the same steps: a step of next_element (and of the selector *)
(* it calls) is determined by the block, the selector and the values       *)
(* drawn, and a step of the VM by the VM state and the elements drawn, so  *)
(* that the actions, the output and the error of the runs are the same.    *)
C22_StepDetermined == ResolverStepDetermined /\ VMStepDetermined
C23_EvalStep ==
  (/\ HasIntent("Invoke")
   /\ Top.intents[1].eval_count < Len(Top.intents[1].arg_exprs)
   /\ Len(call_stack') = Len(call_stack) + 1) =>
    call_stack'[Len(call_stack')].sequence =
      Top.intents[1].arg_exprs[Top.intents[1].eval_count + 1]
C23_LeftToRight == [][C23_EvalStep]_vars


(* The value of a sequence that is one integer or one fragment. *)
IsLiteral(sequence) == Len(sequence) = 1 /\ sequence[1].k \in {"Integer", "Fragment"}
LiteralValue(sequence) ==
  IF sequence[1].k = "Integer" THEN IntVal(sequence[1].n) ELSE StringVal(sequence[1].id)

(* C24 as stated: when SetValue runs for a setter whose path has dynamic   *)
(* keys, the value it writes is the value of the value expression, and the *)
(* i-th dynamic component of the path is resolved by the value of the i-th *)
(* key expression. Stated for the setters of the program whose value and   *)
(* key expressions are literals, so that their values are known.           *)
C24_SetterOperands ==
  LET statement == program[Len(program)]
      intent == Top.intents[1]
      count == intent.expr_count
      height == Len(val_stack)
      key_exprs == dynamic_keys(intent.path)
  IN (/\ HasIntent("SetValue") /\ Len(call_stack) = 1
      /\ Len(program) > 0 /\ statement.k = "VarSet" /\ statement.path = intent.path
      /\ count > 0 /\ height > count
      /\ IsLiteral(statement.args[1])
      /\ \A i \in 1..count : Len(key_exprs[i]) = 1 /\ IsLiteral(key_exprs[i][1])) =>
       /\ val_stack[height] = LiteralValue(statement.args[1])
       /\ \A i \in 1..count :
            val_stack[height - count + i - 1] = LiteralValue(key_exprs[i][1])


(* The key of a pair of a map initialiser whose dynamic key is a block of  *)
(* one literal, and the map that pairs of literals describe: every key     *)
(* with the value of the last pair that has it.                            *)
PairKey(pair) ==
  IF pair.dynamic THEN to_string(LiteralValue(pair.block[1])) ELSE pair.key
LiteralPairs(pairs) ==
  \A i \in 1..Len(pairs) :
    /\ IsLiteral(pairs[i].val)
    /\ pairs[i].dynamic => Len(pairs[i].block) = 1 /\ IsLiteral(pairs[i].block[1])
ExpectedMap(pairs) ==
  [key \in {PairKey(pairs[i]) : i \in 1..Len(pairs)} |->
     LiteralValue(pairs[Max({i \in 1..Len(pairs) : PairKey(pairs[i]) = key})].val)]

(* C25: the step in which BuildList has consumed its k elements creates    *)
(* one list of length k whose i-th item is the value of the i-th element   *)
(* and writes that list, once, to the frame; the step in which BuildMap    *)
(* has consumed its pairs creates one map that holds every key with the    *)
(* value of the last pair that has it, a dynamic key being the text of the *)
(* value of its key expression, and writes that map, once.                 *)
C25_CollectionStep ==
  LET intent == Top.intents[1]
      made == heap'[Len(heap')]
      writes(val) ==
        /\ Len(heap') = Len(heap) + 1
        /\ Len(call_stack') = Len(call_stack)
        /\ call_stack'[Len(call_stack')].output =
             (IF Top.has_output THEN Append(Top.output, val) ELSE Top.output)
  IN /\ (/\ HasIntent("BuildList") /\ intent.index >= Len(intent.init)
         /\ vm_result'.status = "running") =>
          /\ writes(ListVal(Len(heap')))
          /\ made = ListObj(made.items)
          /\ Len(made.items) = Len(intent.init)
          /\ \A i \in 1..Len(intent.init) :
               IsLiteral(intent.init[i]) => made.items[i] = LiteralValue(intent.init[i])
     /\ (/\ HasIntent("BuildMap") /\ intent.pair_index >= Len(intent.init)
         /\ vm_result'.status = "running" /\ LiteralPairs(intent.init)) =>
          /\ writes(MapVal(Len(heap')))
          /\ made = MapObj(ExpectedMap(intent.init))
C25_Collections == [][C25_CollectionStep]_vars

(* The map of @(k = 7; {k} = 8; d = k) has been written: k is 8. *)
C25_Witness ==
  /\ vm_result.status = "ok"
  /\ program[Len(program)].k = "MapInit" /\ Len(program[Len(program)].pairs) = 3
  /\ heap[Len(heap)] = MapObj([key \in {"k", "d"} |->
                                 IF key = "k" THEN IntVal(8) ELSE StringVal("k")])
  /\ vm_result.out = StringVal("[map]")

(***************************************************************************)
(* Specification SpecFrames: a CallStack on its own. It starts as          *)
(* CallStack::new leaves it, with no frame and the ScopeMap's base layer,  *)
(* and takes up to MaxStackOps calls of push_frame, pop_frame and          *)
(* def_var_value (Local), each recorded in stack_ops.                      *)
(***************************************************************************)

(* CallStack::push_frame *)
push_frame(frames, layers, frame) ==
  [frames |-> Append(frames, frame), layers |-> Append(layers, <<>>)]

(* pop_frame leaving the layer of the popped frame behind. *)
pop_frameBad(frames, layers) ==
  IF Len(frames) > 0
  THEN [some |-> TRUE, frames |-> SubSeq(frames, 1, Len(frames) - 1), layers |-> layers]
  ELSE [some |-> FALSE, frames |-> frames, layers |-> layers]

(* CallStack::pop_frame: some says whether a frame is returned. *)
pop_frame(frames, layers) ==
  IF Len(frames) > 0
  THEN [some |-> TRUE, frames |-> SubSeq(frames, 1, Len(frames) - 1),
        layers |-> SubSeq(layers, 1, Len(layers) - 1)]
  ELSE [some |-> FALSE, frames |-> frames, layers |-> layers]

FrameNames == {"x", "y"}
FrameValues == {IntVal(1), IntVal(2)}

CallPushFrame ==
  /\ Len(stack_ops) < MaxStackOps
  /\ \E has_output \in BOOLEAN :
       LET pushed == push_frame(call_stack, locals, StackFrame_new(<<>>, has_output))
       IN /\ call_stack' = pushed.frames
          /\ locals' = pushed.layers
  /\ stack_ops' = Append(stack_ops, [op |-> "push_frame"])
  /\ UNCHANGED <<selVars, blkVars, resVars, parseVars, program, heap, globals,
                 val_stack, vm_result, invoked>>

CallPopFrame ==
  /\ Len(stack_ops) < MaxStackOps
  /\ LET popped == pop_frame(call_stack, locals)
     IN /\ call_stack' = popped.frames
        /\ locals' = popped.layers
        /\ stack_ops' = Append(stack_ops, [op |-> "pop_frame", some |-> popped.some])
  /\ UNCHANGED <<selVars, blkVars, resVars, parseVars, program, heap, globals,
                 val_stack, vm_result, invoked>>

CallDefVarValue ==
  /\ Len(stack_ops) < MaxStackOps
  /\ \E id \in FrameNames, val \in FrameValues :
       /\ locals' = def_var_value(locals, globals, id, Local, val).layers
       /\ stack_ops' = Append(stack_ops, [op |-> "def_var_value", id |-> id, val |-> val])
  /\ UNCHANGED <<selVars, blkVars, resVars, parseVars, program, heap, globals,
                 val_stack, vm_result, invoked, call_stack>>

InitFrames ==
  /\ program = <<>>
  /\ call_stack = <<>>
  /\ locals = << <<>> >>
  /\ globals = <<>>
  /\ val_stack = <<>>
  /\ vm_result = [status |-> "idle", err |-> "", out |-> Empty]
  /\ invoked = <<>>
  /\ stack_ops = <<>>
  /\ heap = <<>>
  /\ sel = Selector_new("Random")
  /\ sel_last = NoCall
  /\ sel_rets = <<>>
  /\ block = NoBlock
  /\ blk_acts = <<>>
  /\ ResIdle
  /\ ParseIdle

NextFrames == CallPushFrame \/ CallPopFrame \/ CallDefVarValue

SpecFrames == InitFrames /\ [][NextFrames]_vars

(* What a call on the stack changes: a push adds a frame and a layer, a    *)
(* pop that returns a frame removes one of each, hides what the frame's    *)
(* layer bound and leaves the bindings below as they were, and a pop on    *)
(* the empty stack returns None and changes nothing.                       *)
C26_Call ==
  LET made == stack_ops'[Len(stack_ops')]
      innermost == locals[Len(locals)]
  IN stack_ops' # stack_ops =>
       /\ made.op = "push_frame" =>
            /\ Len(call_stack') = Len(call_stack) + 1
            /\ Len(locals') = Len(locals) + 1
       /\ made.op = "pop_frame" /\ call_stack # <<>> =>
            /\ made.some
            /\ Len(call_stack') = Len(call_stack) - 1
            /\ Len(locals') = Len(locals) - 1
            /\ \A id \in FrameNames :
                 /\ get_all(locals', id) = IF id \in DOMAIN innermost
                                           THEN Tail(get_all(locals, id))
                                           ELSE get_all(locals, id)
                 /\ (id \in DOMAIN innermost /\ Len(get_all(locals, id)) = 1) =>
                      get_var_value(locals', globals, id, Local, FALSE).res
                        = "InvalidAccess"
       /\ made.op = "pop_frame" /\ call_stack = <<>> =>
            ~made.some /\ locals' = locals /\ call_stack' = call_stack

(* C26: over any calls of push_frame and pop_frame the number of scope     *)
(* layers minus the number of frames stays what it was (one, the base      *)
(* layer); a push adds one layer, a successful pop removes one, a pop on   *)
(* the empty stack returns None and removes none; what the popped frame's  *)
(* layer defined is no longer visible and outer bindings of the same name  *)
(* are unchanged.                                                          *)
C26_LockStep ==
  /\ [](Len(locals) - Len(call_stack) = 1)
  /\ [][C26_Call]_vars

(* x defined outside, shadowed in a frame, the frame popped, and one more  *)
(* pop on the stack then empty: the outer x is what is visible.            *)
C26_Witness ==
  /\ Len(stack_ops) = 5
  /\ stack_ops[1].op = "def_var_value" /\ stack_ops[2].op = "push_frame"
  /\ stack_ops[3].op = "def_var_value" /\ stack_ops[3].id = stack_ops[1].id
  /\ stack_ops[3].val # stack_ops[1].val
  /\ stack_ops[4] = [op |-> "pop_frame", some |-> TRUE]
  /\ stack_ops[5] = [op |-> "pop_frame", some |-> FALSE]
  /\ get_all(locals, stack_ops[1].id) = <<stack_ops[1].val>>

(***************************************************************************)
(* Specification SpecTrace: gen_stack_trace of a call stack of up to       *)
(* MaxFrames frames. Only what the rendering reads of a frame is kept:     *)
(* the origin's name, the debug position, the name of the sequence         *)
(* ("none" if the frame has no sequence or the sequence no name) and the   *)
(* flavor.                                                                 *)
(***************************************************************************)

TraceFrames ==
  [origin_name : {"program"}, debug_pos : {<<1, 1>>},
   sequence_name : {"f", "none"},
   flavor : {"Original", "NativeCall", "FunctionBody"}]

(* impl Display for StackFrame *)
StackFrame_to_string(frame) ==
  "[" \o frame.origin_name \o ":" \o ToString(frame.debug_pos[1]) \o ":"
      \o ToString(frame.debug_pos[2]) \o "] in "
      \o (IF frame.sequence_name # "none" THEN frame.sequence_name
          ELSE IF frame.flavor = "NativeCall" THEN "native call"
          ELSE "?")

(* The text gen_stack_trace pushes for count frames described alike. *)
trace_line(last_frame_string, count) ==
  IF count = 1 THEN "-> " \o last_frame_string
  ELSE "-> " \o last_frame_string \o " (" \o ToString(count) \o " frames)"

(* gen_stack_trace with frames k, k - 1, .. 1 still to visit: the loop     *)
(* over frames.iter().rev() and the lines after it.                        *)
RECURSIVE gen_stack_trace_from(_, _, _, _)
gen_stack_trace_from(frames, k, trace, last_frame_info) ==
  IF k = 0
  THEN IF last_frame_info.some
       THEN trace \o trace_line(last_frame_info.frame, last_frame_info.count)
       ELSE trace
  ELSE LET current_frame_string == StackFrame_to_string(frames[k])
       IN IF last_frame_info.some
          THEN IF current_frame_string = last_frame_info.frame
               THEN gen_stack_trace_from(frames, k - 1, trace,
                      [last_frame_info EXCEPT !.count = @ + 1])
               ELSE gen_stack_trace_from(frames, k - 1,
                      trace \o trace_line(last_frame_info.frame, last_frame_info.count)
                            \o "\n",
                      [some |-> TRUE, frame |-> current_frame_string, count |-> 1])
          ELSE gen_stack_trace_from(frames, k - 1, trace,
                 [some |-> TRUE, frame |-> current_frame_string, count |-> 1])

(* A trace in which no frames are collapsed. *)
gen_stack_traceBad(frames) ==
  IF frames = <<>> THEN ""
  ELSE LET n == Len(frames)
           RECURSIVE each(_)
           each(k) == IF k = 1 THEN trace_line(StackFrame_to_string(frames[1]), 1)
                      ELSE trace_line(StackFrame_to_string(frames[k]), 1) \o "\n"
                           \o each(k - 1)
       IN each(n)

(* CallStack::gen_stack_trace *)
gen_stack_trace(frames) ==
  gen_stack_trace_from(frames, Len(frames), "",
                       [some |-> FALSE, frame |-> "", count |-> 0])

InitTrace ==
  /\ \E n \in 0..MaxFrames : call_stack \in [1..n -> TraceFrames]
  /\ program = <<>>
  /\ locals = <<>>
  /\ globals = <<>>
  /\ val_stack = <<>>
  /\ vm_result = [status |-> "idle", err |-> "", out |-> Empty]
  /\ invoked = <<>>
  /\ stack_ops = <<>>
  /\ heap = <<>>
  /\ sel = Selector_new("Random")
  /\ sel_last = NoCall
  /\ sel_rets = <<>>
  /\ block = NoBlock
  /\ blk_acts = <<>>
  /\ ResIdle
  /\ ParseIdle

CallGenStackTrace ==
  /\ stack_ops = <<>>
  /\ stack_ops' = <<[op |-> "gen_stack_trace", trace |-> gen_stack_trace(call_stack)]>>
  /\ UNCHANGED <<selVars, blkVars, resVars, parseVars, program, heap, globals,
                 val_stack, vm_result, invoked, call_stack, locals>>

NextTrace == CallGenStackTrace

SpecTrace == InitTrace /\ [][NextTrace]_vars

(* The descriptions of the frames from the top of the stack down. *)
TopDown(frames) ==
  [i \in 1..Len(frames) |-> StackFrame_to_string(frames[Len(frames) + 1 - i])]

(* Where the maximal runs of equal adjacent members of descs begin, and    *)
(* the length of the run that begins at i.                                 *)
RunStarts(descs) == {i \in 1..Len(descs) : i = 1 \/ descs[i] # descs[i - 1]}
RunLength(descs, i) ==
  LET later == {j \in RunStarts(descs) \cup {Len(descs) + 1} : j > i}
  IN (CHOOSE j \in later : \A m \in later : j <= m) - i

(* The lines for the runs that begin at i or after it, one per run, each   *)
(* but the last ended by a line feed.                                      *)
RECURSIVE RunLines(_, _)
RunLines(descs, i) ==
  IF i > Len(descs) THEN ""
  ELSE LET k == RunLength(descs, i)
       IN "-> " \o descs[i]
          \o (IF k >= 2 THEN " (" \o ToString(k) \o " frames)" ELSE "")
          \o (IF i + k > Len(descs) THEN "" ELSE "\n" \o RunLines(descs, i + k))

(* C27: gen_stack_trace lists the frames from the top of the stack down,   *)
(* one line per maximal run of adjacent frames with the same description,  *)
(* with the suffix (k frames) exactly when the run has k >= 2 frames; the  *)
(* runs cover the whole stack, adjacent lines describe different frames,   *)
(* and the empty stack renders as the empty string.                        *)
C27_TraceOfRuns ==
  stack_ops # <<>> /\ stack_ops[1].op = "gen_stack_trace" =>
    LET descs == TopDown(call_stack)
        starts == RunStarts(descs)
    IN /\ stack_ops[1].trace = RunLines(descs, 1)
       /\ call_stack = <<>> => stack_ops[1].trace = ""
       /\ \A i \in starts :
            /\ \A j \in i..(i + RunLength(descs, i) - 1) : descs[j] = descs[i]
            /\ i + RunLength(descs, i) <= Len(descs) =>
                 /\ i + RunLength(descs, i) \in starts
                 /\ descs[i + RunLength(descs, i)] # descs[i]

(* Four frames: the two on top differ but are described alike, the third   *)
(* is described differently, the bottom one like the top: three lines.     *)
C27_Witness ==
  /\ stack_ops # <<>> /\ stack_ops[1].op = "gen_stack_trace"
  /\ Len(call_stack) = 4
  /\ call_stack[4] # call_stack[3]
  /\ StackFrame_to_string(call_stack[4]) = StackFrame_to_string(call_stack[3])
  /\ StackFrame_to_string(call_stack[2]) # StackFrame_to_string(call_stack[3])
  /\ StackFrame_to_string(call_stack[1]) = StackFrame_to_string(call_stack[4])
  /\ stack_ops[1].trace =
       "-> [program:1:1] in ? (2 frames)\n-> [program:1:1] in f\n-> [program:1:1] in ?"

(***************************************************************************)
(* Whitespace in a parsed sequence (SpecParse, the sources SpacedSources). *)
(***************************************************************************)

(* Token i of the source is outside every accessor, and an item that       *)
(* prints, text or a getter, begins there.                                 *)
OutsideAccessors(i) ==
  Cardinality({j \in 1..(i - 1) : tokens[j].t = "LeftAngle"})
    = Cardinality({j \in 1..(i - 1) : tokens[j].t = "RightAngle"})
PrintingItemAt(i) ==
  /\ i \in 1..Len(tokens) /\ OutsideAccessors(i)
  /\ \/ tokens[i].t = "Fragment"
     \/ /\ tokens[i].t = "LeftAngle" /\ i + 2 <= Len(tokens)
        /\ tokens[i + 1].t = "Fragment" /\ tokens[i + 2].t = "RightAngle"

(* The whitespace of the source that is to be kept: it follows some        *)
(* printing item and the item right after it prints.                       *)
KeptSpaces ==
  {i \in 1..Len(tokens) :
     /\ tokens[i].t = "Whitespace" /\ OutsideAccessors(i)
     /\ PrintingItemAt(i + 1)
     /\ \E j \in 1..(i - 1) : PrintingItemAt(j)}

IsPrinting(rst) == rst.k \in {"Fragment", "Integer", "VarGet"}

(* C28: in the sequence parsed from text, definitions, setters and getters *)
(* with whitespace among them, a Whitespace node stands for each           *)
(* whitespace of the source that follows a printing element and is         *)
(* followed by one, and for no other: none before the first printing       *)
(* element, none after the last, none for whitespace that a definition or  *)
(* a setter follows; each Whitespace node is followed by a printing node.  *)
C28_PendingWhitespace ==
  (tokens \in SpacedSources /\ parse_result = "Ok") =>
    LET nodes == parse_ret.nodes
        spaces == {k \in 1..Len(nodes) : nodes[k].k = "Whitespace"}
    IN /\ Cardinality(spaces) = Cardinality(KeptSpaces)
       /\ \A k \in spaces :
            /\ k < Len(nodes) /\ IsPrinting(nodes[k + 1])
            /\ \E j \in 1..(k - 1) : IsPrinting(nodes[j])

(***************************************************************************)
(* Specification SpecProgram: a source of SpacedSources, or SumSource, is  *)
(* compiled and, if the parser returns Ok, run. The parser's actions are   *)
(* those the sources reach, the VM's those the programs reach.             *)
(***************************************************************************)

WhitespaceNode(ws) == [NoNode EXCEPT !.k = "Whitespace", !.id = ws]

(* The sequence the parser built as the VM reads it: the nodes are the     *)
(* same Rst values, written here in the two forms the model has for them.  *)
RECURSIVE RantProgram_new(_)
RantProgram_new(sequence) ==
  [i \in 1..Len(sequence) |->
     LET rst == sequence[i]
         path == [j \in 1..Len(rst.path.parts) |->
                    IF rst.path.parts[j].c = "Index" THEN IndexKey(rst.path.parts[j].n)
                    ELSE NameKey(rst.path.parts[j].s)]
     IN CASE rst.k = "Fragment" -> FragmentNode(rst.s)
          [] rst.k = "Whitespace" -> WhitespaceNode(rst.s)
          [] rst.k = "Integer" -> IntegerNode(rst.n)
          [] rst.k = "VarDef" ->
               VarDefNode(rst.s, IF rst.exprs = <<>> THEN <<>>
                                 ELSE RantProgram_new(rst.exprs[1]))
          [] rst.k = "VarGet" -> VarGetNode(path)
          [] OTHER -> VarSetNode(path, RantProgram_new(rst.exprs[1]))]

(* The program the parser returned is run: VM::run pushes its root         *)
(* sequence onto the call stack.                                           *)
RunParsed ==
  /\ parse_result = "Ok"
  /\ vm_result.status = "idle"
  /\ program' = RantProgram_new(parse_ret.nodes)
  /\ call_stack' = <<StackFrame_new(program', TRUE)>>
  /\ locals' = << <<>> >>
  /\ vm_result' = [vm_result EXCEPT !.status = "running"]
  /\ UNCHANGED <<selVars, blkVars, resVars, parseVars, stack_ops, heap, globals,
                 val_stack, invoked>>

(* VM::run: RST::Whitespace(ws) => write_ws(ws) *)
NodeWhitespace ==
  /\ NodeIs("Whitespace")
  /\ call_stack' = SetTop(write_value(seq_next(Top).frame, StringVal(NextNode.id)))
  /\ UNCHANGED <<selVars, blkVars, resVars, parseVars, stack_ops, program, heap,
                 locals, globals, val_stack, vm_result, invoked>>

InitProgram ==
  /\ tokens \in SpacedSources \cup {SumSource}
  /\ reader = 0
  /\ var_stack = ScopeSet_default
  /\ capture_stack = <<>>
  /\ has_errors = FALSE
  /\ reporter = {}
  /\ parse_stack = <<>>
  /\ parse_ret = NoRet
  /\ parse_result = "idle"
  /\ ResIdle
  /\ VmIdle
  /\ sel = Selector_new("Random")
  /\ sel_last = NoCall
  /\ sel_rets = <<>>
  /\ block = NoBlock
  /\ blk_acts = <<>>

ParseProgram ==
  \/ ParseStart
  \/ ParseFinish
  \/ SequenceItem
  \/ SequenceWhitespace
  \/ SequenceDelimiter
  \/ SequenceEnd
  \/ SequenceResume
  \/ SequenceAccessor
  \/ AccessorRead
  \/ AccessorPath
  \/ AccessorValue
  \/ PathStart
  \/ PathRest

RunProgram ==
  \/ NodeFragment
  \/ NodeWhitespace
  \/ NodeInteger
  \/ NodeVarDef
  \/ NodeVarGet
  \/ NodeVarSet
  \/ IntentDefVar
  \/ IntentGetValue
  \/ IntentSetValue
  \/ PopFrame
  \/ Finish

NextProgram == ParseProgram \/ RunParsed \/ RunProgram

SpecProgram == InitProgram /\ [][NextProgram]_vars

(* C29: the program <$x = 2> <$y = 3> <x>+<y> runs to the output 2 3 2+3. *)
C29_SumOutput ==
  (tokens = SumSource /\ vm_result.status \notin {"idle", "running"}) =>
    vm_result = [status |-> "ok", err |-> "", out |-> StringVal("2 3 2+3")]

(***************************************************************************)
(* The end of a block (SpecBlock).                                         *)
(***************************************************************************)

(* A call of next_element: it returns None exactly when the block is       *)
(* force-stopped, its condval is false or its finite reps are used up;     *)
(* after a None it returns None; a block with a false condval leaves the   *)
(* selector as it was and draws nothing from the RNG.                      *)
C30_Call ==
  LET returned == blk_acts'[Len(blk_acts')]
      exhausted == /\ block.attrs.reps.kind # "RepeatForever"
                   /\ block.cur_steps >= block.total_steps
  IN Len(blk_acts') = Len(blk_acts) + 1 =>
       /\ returned.a = "None" <=>
            (block.force_stop \/ block.attrs.condval = "False" \/ exhausted)
       /\ block.force_stop => returned.a = "None"
       /\ (Len(blk_acts) > 0 /\ blk_acts[Len(blk_acts)].a = "None") =>
            returned.a = "None"
       /\ block.attrs.condval = "False" =>
            /\ returned.a = "None"
            /\ BlockDraws(block, sel) = {NoDraws}
            /\ UNCHANGED <<sel, sel_last, sel_rets, block>>

(* C30: a block is done when it is force-stopped, its condval is false or  *)
(* its finite reps are exhausted; once next_element has returned None it   *)
(* returns None on every later call; after force_stop the next call        *)
(* returns None whatever the reps; a block with a false condval returns    *)
(* None on its first call without consulting the selector or the RNG.      *)
C30_DoneAbsorbing == [][C30_Call]_vars

(* A block that repeats forever gave an element and a separator, was       *)
(* force-stopped and has returned None twice since.                        *)
C30_Witness ==
  /\ block.attrs.reps.kind = "RepeatForever" /\ block.force_stop
  /\ Len(blk_acts) = 4
  /\ blk_acts[1].a = "Element" /\ blk_acts[2].a = "Separator"
  /\ blk_acts[3].a = "None" /\ blk_acts[4].a = "None"

(***************************************************************************)
(* Claims about the intent queue, checked under SpecRun.                   *)
(***************************************************************************)

(* seq_next was called on the frame: its position in its sequence moved. *)
Advanced(before, after) ==
  before.pc # after.pc \/ before.started # after.started

(* older is what is left of a queue that ends with the intents older. *)
EndsWith(queue, older) ==
  /\ Len(queue) >= Len(older)
  /\ SubSeq(queue, Len(queue) - Len(older) + 1, Len(queue)) = older

(* One step of a run. Only the top frame's position moves, and only when   *)
(* its intent queue is empty; while the queue holds intents a step that    *)
(* changes the call stack removes the intent at the front, leaves the      *)
(* intents behind it in place at the end of the queue and leaves the       *)
(* frames below as they are; and the two intents of a function call are    *)
(* queued with the one pushed to the front (the getter of the function)    *)
(* ahead of the one pushed to the back (the invocation).                   *)
C31_Step ==
  (vm_result.status = "running" /\ Len(call_stack) > 0) =>
    LET d == Len(call_stack)
        before == call_stack[d]
    IN /\ \A e \in 1..Min(d, Len(call_stack')) :
            Advanced(call_stack[e], call_stack'[e]) =>
              e = d /\ Len(before.intents) = 0
       /\ (Len(before.intents) > 0 /\ call_stack' # call_stack) =>
            /\ Len(call_stack') >= d
            /\ EndsWith(call_stack'[d].intents, Tail(before.intents))
            /\ ~Advanced(before, call_stack'[d])
            /\ \A e \in 1..(d - 1) : call_stack'[e] = call_stack[e]
       /\ (Len(before.intents) = 0 /\ Len(call_stack') = d
           /\ Len(call_stack'[d].intents) = 2) =>
            /\ call_stack'[d].intents[1].k \in {"GetValue", "BuildDynamicGetter"}
            /\ call_stack'[d].intents[1].override_print
            /\ call_stack'[d].intents[2].k = "Invoke"

(* C31: the VM never dispatches a node of a frame whose intent queue holds *)
(* an intent: a resumed frame's intents are taken from the front and       *)
(* handled, until the queue is empty or a handler pushes a frame, before   *)
(* the frame's position advances; an intent pushed to the front is handled *)
(* before all others, one pushed to the back after all others.             *)
C31_IntentsFirst == [][C31_Step]_vars

(* The root frame, resumed after the two arguments of [x: 1; <>] were      *)
(* evaluated, with the invocation pushed to the back still to handle; the  *)
(* getter pushed to the front has been handled.                            *)
C31_Witness ==
  /\ vm_result.status = "running"
  /\ Len(call_stack) = 1
  /\ Top.pc = 1
  /\ Len(Top.intents) = 1
  /\ Top.intents[1].k = "Invoke"
  /\ Top.intents[1].eval_count = 2
  /\ Len(val_stack) = 3

(***************************************************************************)
(* Specification SpecTaste: CallStack::taste_for_first on call stacks of   *)
(* up to MaxFrames frames of any flavors, for every target flavor. A frame *)
(* is its flavor; stack_ops holds the last call and what it returned.      *)
(***************************************************************************)

(* enum StackFrameFlavor, in the order of its declaration, which is the    *)
(* order that derive(PartialOrd) gives it.                                 *)
StackFrameFlavor ==
  <<"Original", "NativeCall", "BlockElement", "RepeaterElement", "FunctionBody",
    "DynamicKeyExpression", "ArgumentExpression">>

Flavors == {StackFrameFlavor[i] : i \in 1..Len(StackFrameFlavor)}

(* The discriminant of a flavor: a > b of the code is on discriminants. *)
flavor_rank(flavor) ==
  CHOOSE i \in 1..Len(StackFrameFlavor) : StackFrameFlavor[i] = flavor

(* The loop of taste_for_first over frames.iter().rev().enumerate(), with  *)
(* frames k, k - 1, .. 1 still to visit; frame_index counts from the top.  *)
RECURSIVE taste_from(_, _, _)
taste_from(frames, k, target_flavor) ==
  IF k = 0 THEN [some |-> FALSE, i |-> 0]
  ELSE IF flavor_rank(frames[k].flavor) > flavor_rank(target_flavor)
       THEN [some |-> FALSE, i |-> 0]
       ELSE IF frames[k].flavor = target_flavor
            THEN [some |-> TRUE, i |-> Len(frames) - k]
            ELSE taste_from(frames, k - 1, target_flavor)

(* A search that stops at no stronger flavor. *)
taste_for_firstBad(frames, target_flavor) ==
  IF \E k \in 1..Len(frames) : frames[k].flavor = target_flavor
  THEN [some |-> TRUE,
        i |-> Len(frames)
              - Max({k \in 1..Len(frames) : frames[k].flavor = target_flavor})]
  ELSE [some |-> FALSE, i |-> 0]

(* CallStack::taste_for_first *)
taste_for_first(frames, target_flavor) ==
  taste_from(frames, Len(frames), target_flavor)

InitTaste ==
  /\ \E n \in 0..MaxFrames : call_stack \in [1..n -> [flavor : Flavors]]
  /\ program = <<>>
  /\ locals = <<>>
  /\ globals = <<>>
  /\ val_stack = <<>>
  /\ vm_result = [status |-> "idle", err |-> "", out |-> Empty]
  /\ invoked = <<>>
  /\ stack_ops = <<>>
  /\ heap = <<>>
  /\ sel = Selector_new("Random")
  /\ sel_last = NoCall
  /\ sel_rets = <<>>
  /\ block = NoBlock
  /\ blk_acts = <<>>
  /\ ResIdle
  /\ ParseIdle

CallTasteForFirst ==
  /\ \E target_flavor \in Flavors :
       stack_ops' = <<[op |-> "taste_for_first", target |-> target_flavor,
                       ret |-> taste_for_first(call_stack, target_flavor)]>>
  /\ UNCHANGED <<selVars, blkVars, resVars, parseVars, program, heap, globals,
                 val_stack, vm_result, invoked, call_stack, locals>>

NextTaste == CallTasteForFirst

SpecTaste == InitTaste /\ [][NextTaste]_vars

(* The flavor of the frame with top-relative index i. *)
FlavorAt(i) == call_stack[Len(call_stack) - i].flavor

(* The top-relative indices of the frames of a flavor. *)
FramesOf(flavor) == {i \in 0..(Len(call_stack) - 1) : FlavorAt(i) = flavor}

(* The top-relative index of the frame of that flavor nearest to the top. *)
Nearest(flavor) == CHOOSE i \in FramesOf(flavor) : \A j \in FramesOf(flavor) : i <= j

(* f is strictly weaker than g in the order Original < NativeCall <        *)
(* BlockElement < RepeaterElement < FunctionBody < DynamicKeyExpression <  *)
(* ArgumentExpression.                                                     *)
Weaker(f, g) ==
  <<f, g>> \in
    {<<"Original", "NativeCall">>, <<"Original", "BlockElement">>,
     <<"Original", "RepeaterElement">>, <<"Original", "FunctionBody">>,
     <<"Original", "DynamicKeyExpression">>, <<"Original", "ArgumentExpression">>,
     <<"NativeCall", "BlockElement">>, <<"NativeCall", "RepeaterElement">>,
     <<"NativeCall", "FunctionBody">>, <<"NativeCall", "DynamicKeyExpression">>,
     <<"NativeCall", "ArgumentExpression">>,
     <<"BlockElement", "RepeaterElement">>, <<"BlockElement", "FunctionBody">>,
     <<"BlockElement", "DynamicKeyExpression">>,
     <<"BlockElement", "ArgumentExpression">>,
     <<"RepeaterElement", "FunctionBody">>,
     <<"RepeaterElement", "DynamicKeyExpression">>,
     <<"RepeaterElement", "ArgumentExpression">>,
     <<"FunctionBody", "DynamicKeyExpression">>,
     <<"FunctionBody", "ArgumentExpression">>,
     <<"DynamicKeyExpression", "ArgumentExpression">>}

(* C32: taste_for_first(target) returns the top-relative index of the      *)
(* nearest frame of flavor target if and only if every frame above that    *)
(* frame has a flavor strictly weaker than target; it returns None when no *)
(* frame has the flavor or a frame of a stronger flavor lies above the     *)
(* nearest one that has; so a search for a block or repeater element never *)
(* returns a frame below a FunctionBody frame.                             *)
C32_TasteForFirst ==
  \A k \in 1..Len(stack_ops) :
    stack_ops[k].op = "taste_for_first" =>
      LET target == stack_ops[k].target
          ret == stack_ops[k].ret
          found == /\ FramesOf(target) # {}
                   /\ \A j \in 0..(Nearest(target) - 1) : Weaker(FlavorAt(j), target)
      IN /\ ret.some <=> found
         /\ ret.some => ret.i = Nearest(target)
         /\ ~ret.some <=>
              \/ FramesOf(target) = {}
              \/ \E j \in 0..(Nearest(target) - 1) : Weaker(target, FlavorAt(j))
         /\ (ret.some /\ target \in {"BlockElement", "RepeaterElement"}) =>
              \A j \in 0..ret.i : FlavorAt(j) # "FunctionBody"

(* A search for a block element from inside a block in a function called   *)
(* from a block: the block of the body is found under the frames of a      *)
(* native call; and one from the function's body, turned away by the       *)
(* FunctionBody frame above the caller's block.                            *)
C32_Witness ==
  /\ Len(call_stack) = 4
  /\ call_stack[1].flavor = "BlockElement"
  /\ call_stack[2].flavor = "FunctionBody"
  /\ Len(stack_ops) = 1
  /\ stack_ops[1].target = "BlockElement"
  /\ \/ /\ call_stack[3].flavor = "BlockElement"
        /\ call_stack[4].flavor = "NativeCall"
        /\ stack_ops[1].ret = [some |-> TRUE, i |-> 1]
     \/ /\ call_stack[3].flavor = "Original"
        /\ call_stack[4].flavor = "Original"
        /\ stack_ops[1].ret = [some |-> FALSE, i |-> 0]

(***************************************************************************)
(* Claims about the order of the indices, checked under SpecSel. The k-th  *)
(* select call, k = 0, 1, .., is the one that returns sel_rets[k + 1]: a   *)
(* rejected call returns no index and changes nothing.                     *)
(***************************************************************************)

(* C33: with element count n >= 1 the k-th select call returns k mod n for *)
(* Forward, n-1-(k mod n) for Reverse, min(k, n-1) for ForwardClamp,       *)
(* max(n-1-k, 0) for ReverseClamp, and for One the index of the first call *)
(* at every call.                                                          *)
C33_Sequences ==
  is_initialized(sel) =>
    \A i \in 1..Len(sel_rets) :
      LET k == i - 1
          n == sel.count
      IN /\ sel.mode = "Forward" => sel_rets[i] = k % n
         /\ sel.mode = "Reverse" => sel_rets[i] = n - 1 - (k % n)
         /\ sel.mode = "ForwardClamp" => sel_rets[i] = (IF k < n - 1 THEN k ELSE n - 1)
         /\ sel.mode = "ReverseClamp" => sel_rets[i] = (IF n - 1 - k > 0 THEN n - 1 - k ELSE 0)
         /\ sel.mode = "One" => sel_rets[i] = sel_rets[1]

(* A Reverse selector on 3 elements that has wrapped around, 2 1 0 2 1. *)
C33_Witness ==
  /\ sel.mode = "Reverse" /\ sel.count = 3
  /\ Len(sel_rets) = 5
  /\ sel_rets[3] = 0 /\ sel_rets[4] = 2

(* The select call of a step reshuffles the jump table of an initialised   *)
(* Deck selector only if it is the n-th, 2n-th, .. call.                   *)
C34_ReshuffleStep ==
  (sel.mode = "Deck" /\ is_initialized(sel) /\ sel'.jump_table # sel.jump_table) =>
    /\ Len(sel_rets') = Len(sel_rets) + 1
    /\ Len(sel_rets') % sel.count = 0

(* The jump tables of DeckLoop and DeckClamp are shuffled once, at the     *)
(* first call.                                                             *)
C34_KeptStep ==
  (sel.mode \in {"DeckLoop", "DeckClamp"} /\ is_initialized(sel)) =>
    sel'.jump_table = sel.jump_table

(* C34: with DeckLoop and DeckClamp on n elements the first n select calls *)
(* return every index of 0 .. n-1 exactly once; DeckLoop then repeats that *)
(* permutation (call k+n returns what call k returned, nothing is          *)
(* reshuffled), DeckClamp returns the index of its n-th call at every      *)
(* later call; Deck reshuffles only in its n-th, 2n-th, .. call.           *)
C34_DeckOrders ==
  /\ [](\/ ~(sel.mode \in {"DeckLoop", "DeckClamp"} /\ is_initialized(sel))
        \/ /\ Len(sel_rets) >= sel.count =>
                IsPermutationWindow(sel_rets, 1, sel.count)
           /\ \A i \in 1..Min(Len(sel_rets), sel.count) :
                \A j \in 1..Min(Len(sel_rets), sel.count) :
                  i # j => sel_rets[i] # sel_rets[j]
           /\ sel.mode = "DeckLoop" =>
                \A i \in 1..(Len(sel_rets) - sel.count) :
                  sel_rets[i + sel.count] = sel_rets[i]
           /\ sel.mode = "DeckClamp" =>
                \A i \in (sel.count + 1)..Len(sel_rets) :
                  sel_rets[i] = sel_rets[sel.count])
  /\ [][C34_ReshuffleStep /\ C34_KeptStep]_vars

(* A DeckClamp selector on 3 elements, shuffled to 1 2 0, that has been    *)
(* called five times.                                                      *)
C34_Witness ==
  /\ sel.mode = "DeckClamp" /\ sel.count = 3
  /\ sel_rets = <<1, 2, 0, 0, 0>>

(* C40: the jump table of an initialised Deck, DeckLoop or DeckClamp       *)
(* selector is a permutation of 0 .. n-1, after initialisation and after   *)
(* every reshuffle, whatever the RNG delivers: it has n entries and holds  *)
(* every index exactly once.                                               *)
C40_JumpTable ==
  (sel.mode \in DeckModes /\ is_initialized(sel)) =>
    /\ Len(sel.jump_table) = sel.count
    /\ \A v \in 0..(sel.count - 1) :
         Cardinality({i \in 1..Len(sel.jump_table) : sel.jump_table[i] = v}) = 1

(* A Deck selector on 3 elements after its second reshuffle, with a jump   *)
(* table that is not in order.                                             *)
C40_Witness ==
  /\ sel.mode = "Deck" /\ sel.count = 3
  /\ Len(sel_rets) = 6 /\ sel.index = 0
  /\ sel.jump_table = <<2, 0, 1>>
  /\ sel_rets[1] # sel_rets[4]

(***************************************************************************)
(* Specification SpecAccess: get_var_value, set_var_value and              *)
(* def_var_value of a call stack of up to MaxScopes frames, for the name x *)
(* bound or not in each scope layer and in the globals, with every access  *)
(* kind. stack_ops holds the last call and what it returned.               *)
(***************************************************************************)

AccessValues == {IntVal(1), IntVal(2), FuncVal(RantFunction_new(1, <<>>, FALSE))}

(* A scope layer or the globals: x is not bound, or bound to a value. *)
AccessLayers == {<<>>} \cup {[nm \in {"x"} |-> val] : val \in AccessValues}

AccessKinds == {Local, ExplicitGlobal} \cup {Descope(n) : n \in 0..MaxScopes}

InitAccess ==
  /\ \E n \in 0..MaxScopes :
       /\ locals \in [1..(n + 1) -> AccessLayers]
       /\ call_stack = [k \in 1..n |-> StackFrame_new(<<>>, TRUE)]
  /\ globals \in AccessLayers
  /\ program = <<>>
  /\ val_stack = <<>>
  /\ vm_result = [status |-> "idle", err |-> "", out |-> Empty]
  /\ invoked = <<>>
  /\ stack_ops = <<>>
  /\ heap = <<>>
  /\ sel = Selector_new("Random")
  /\ sel_last = NoCall
  /\ sel_rets = <<>>
  /\ block = NoBlock
  /\ blk_acts = <<>>
  /\ ResIdle
  /\ ParseIdle

CallGetVarValue ==
  /\ \E id \in {"x"}, access \in AccessKinds, prefer_function \in BOOLEAN :
       LET got == get_var_value(locals, globals, id, access, prefer_function)
       IN stack_ops' = <<[op |-> "get_var_value", id |-> id, access |-> access,
                          prefer_function |-> prefer_function, val |-> Empty,
                          res |-> got.res, ret |-> got.val]>>
  /\ UNCHANGED <<selVars, blkVars, resVars, parseVars, program, heap, globals,
                 val_stack, vm_result, invoked, call_stack, locals>>

CallSetVarValue ==
  /\ \E id \in {"x"}, access \in AccessKinds, val \in AccessValues :
       LET set == set_var_value(locals, globals, id, access, val)
       IN /\ locals' = set.layers
          /\ globals' = set.glob
          /\ stack_ops' = <<[op |-> "set_var_value", id |-> id, access |-> access,
                             prefer_function |-> FALSE, val |-> val,
                             res |-> set.res, ret |-> Empty]>>
  /\ UNCHANGED <<selVars, blkVars, resVars, parseVars, program, heap,
                 val_stack, vm_result, invoked, call_stack>>

CallDefVarValueAt ==
  /\ \E id \in {"x"}, access \in AccessKinds, val \in AccessValues :
       LET def == def_var_value(locals, globals, id, access, val)
       IN /\ locals' = def.layers
          /\ globals' = def.glob
          /\ stack_ops' = <<[op |-> "def_var_value", id |-> id, access |-> access,
                             prefer_function |-> FALSE, val |-> val,
                             res |-> "Ok", ret |-> Empty]>>
  /\ UNCHANGED <<selVars, blkVars, resVars, parseVars, program, heap,
                 val_stack, vm_result, invoked, call_stack>>

NextAccess ==
  \/ CallGetVarValue
  \/ CallSetVarValue
  \/ CallDefVarValueAt

SpecAccess == InitAccess /\ [][NextAccess]_vars

(* The scope layers that bind id, and those of them that the access kind   *)
(* reaches: all for Local, those under the n innermost for Descope(n),     *)
(* none for ExplicitGlobal.                                                *)
Binding(id) == {k \in 1..Len(locals) : id \in DOMAIN locals[k]}

Reached(id, access) ==
  CASE access.k = "Local" -> Binding(id)
    [] access.k = "Descope" -> {k \in Binding(id) : k <= Len(locals) - access.n}
    [] access.k = "ExplicitGlobal" -> {}

(* C35: set_var_value on a name that has no binding the access kind        *)
(* reaches and no global returns InvalidAccess and changes nothing: the    *)
(* variable is not defined, the scope layers and the globals are as they   *)
(* were.                                                                   *)
C35_Step ==
  LET made == stack_ops'[1]
  IN (/\ made.op = "set_var_value"
      /\ Reached(made.id, made.access) = {}
      /\ made.id \notin DOMAIN globals) =>
       /\ made.res = "InvalidAccess"
       /\ locals' = locals
       /\ globals' = globals

C35_SetUnbound == [][C35_Step]_vars

(* <^x = 1> where x is bound in the innermost scope only: the binding is   *)
(* not reached, not written, and x is not defined anywhere else.           *)
C35_Witness ==
  /\ Len(stack_ops) = 1
  /\ stack_ops[1].op = "set_var_value"
  /\ stack_ops[1].access = Descope(1)
  /\ stack_ops[1].val = IntVal(1)
  /\ stack_ops[1].res = "InvalidAccess"
  /\ Len(locals) = 2
  /\ locals[1] = <<>>
  /\ locals[2] = [nm \in {"x"} |-> IntVal(2)]
  /\ globals = <<>>

(* What a call with ExplicitGlobal does: the locals are as they were; get  *)
(* returns the global or InvalidAccess, set writes the global if there is  *)
(* one, define binds it.                                                   *)
GlobalOnly(made) ==
  /\ locals' = locals
  /\ made.op = "get_var_value" =>
       /\ made.res = (IF made.id \in DOMAIN globals THEN "Ok" ELSE "InvalidAccess")
       /\ made.res = "Ok" => made.ret = globals[made.id]
  /\ made.op = "set_var_value" =>
       /\ made.res = (IF made.id \in DOMAIN globals THEN "Ok" ELSE "InvalidAccess")
       /\ made.res = "Ok" => (made.id \in DOMAIN globals' /\ globals'[made.id] = made.val)
       /\ made.res # "Ok" => globals' = globals
  /\ made.op = "def_var_value" =>
       made.id \in DOMAIN globals' /\ globals'[made.id] = made.val

(* A Local call on a name some layer binds does not reach the globals: a   *)
(* read returns a value bound in a layer, what it would return if there    *)
(* were no globals; a write leaves the globals as they are.                *)
LocalFirst(made) ==
  /\ globals' = globals
  /\ made.op = "get_var_value" =>
       /\ made.res = "Ok"
       /\ made.ret = get_var_value(locals, <<>>, made.id, Local,
                                   made.prefer_function).val

(* C36 as claimed: every Local read of a bound name stays in the layers. *)
C36_StepOriginal ==
  LET made == stack_ops'[1]
  IN /\ made.access = ExplicitGlobal => GlobalOnly(made)
     /\ (made.access = Local /\ Binding(made.id) # {}) => LocalFirst(made)

C36_Original == [][C36_StepOriginal]_vars

(* C36, amended for the read that prefers a function. *)
C36_Step ==
  LET made == stack_ops'[1]
      callable == \E k \in Binding(made.id) : is_callable(locals[k][made.id])
  IN /\ made.access = ExplicitGlobal => GlobalOnly(made)
     /\ (/\ made.access = Local /\ Binding(made.id) # {}
         /\ (made.op = "get_var_value" /\ made.prefer_function) => callable) =>
          LocalFirst(made)
     /\ (/\ made.access = Local /\ Binding(made.id) # {}
         /\ made.op = "get_var_value" /\ made.prefer_function /\ ~callable) =>
          /\ made.res = "Ok"
          /\ made.ret = IF made.id \in DOMAIN globals /\ is_callable(globals[made.id])
                        THEN globals[made.id]
                        ELSE locals[Max(Binding(made.id))][made.id]

(* C36: with ExplicitGlobal, get, set and define work on the globals only  *)
(* and a binding of the name in a scope layer is neither read nor written; *)
(* with Local a write, and a read that does not prefer a function, reach   *)
(* the globals only when no layer binds the name, and a read that prefers  *)
(* a function reaches them also when no layer binds the name to a function *)
(* (it then returns a global function of that name, if there is one).      *)
C36_GlobalAccess == [][C36_Step]_vars

(* </x = 2> where x is 1 in the innermost scope and 1 in the globals: the  *)
(* global is written, the local is as it was.                              *)
C36_Witness ==
  /\ Len(stack_ops) = 1
  /\ stack_ops[1].op = "set_var_value"
  /\ stack_ops[1].access = ExplicitGlobal
  /\ stack_ops[1].val = IntVal(2)
  /\ stack_ops[1].res = "Ok"
  /\ Len(locals) = 2
  /\ locals[2] = [nm \in {"x"} |-> IntVal(1)]
  /\ globals = [nm \in {"x"} |-> IntVal(2)]

(***************************************************************************)
(* Specification SpecChain: conditional blocks resolved one after another  *)
(* on one attribute frame. A block guarded by make_if, make_else_if or     *)
(* make_else is pushed right after its guard and popped when it ends; a    *)
(* block that is executed (its first next_element returns an element) may  *)
(* hold blocks of its own, guarded by make_if or not guarded, one level    *)
(* deep. attr_last is the log of the calls: the operation, its argument    *)
(* (for push_block: whether the block is executed) and the number of       *)
(* blocks open when it was made.                                           *)
(***************************************************************************)

ChainGuards == {"make_if", "make_else_if", "make_else"}

(* A guard has been called and its block is still to be pushed. *)
GuardPending == Len(attr_last) > 0 /\ attr_last[Len(attr_last)].op \in ChainGuards

(* The position is inside a block that is executed. *)
InBranch ==
  /\ Len(resolver.block_stack) = 1
  /\ ~is_done(resolver.block_stack[1])

CanCall == attr_ops < MaxChainOps

ChainCall(r, op, x) ==
  /\ resolver' = r
  /\ attr_last' = Append(attr_last, [op |-> op, x |-> x,
                                     open |-> Len(resolver.block_stack)])
  /\ attr_ops' = attr_ops + 1
  /\ UNCHANGED <<selVars, blkVars, vmVars, parseVars>>

ChainMakeIf ==
  /\ CanCall /\ ~GuardPending
  /\ Len(resolver.block_stack) = 0 \/ InBranch
  /\ \E x \in BOOLEAN :
       ChainCall(attrs_mut(resolver, make_if(attrs(resolver), x)), "make_if", x)

ChainMakeElseIf ==
  /\ CanCall /\ ~GuardPending
  /\ Len(resolver.block_stack) = 0
  /\ \E x \in BOOLEAN :
       ChainCall(attrs_mut(resolver, make_else_if(attrs(resolver), x)),
                 "make_else_if", x)

ChainMakeElse ==
  /\ CanCall /\ ~GuardPending
  /\ Len(resolver.block_stack) = 0
  /\ ChainCall(attrs_mut(resolver, make_else(attrs(resolver))), "make_else", FALSE)

ChainPushBlock ==
  /\ CanCall
  /\ \/ GuardPending /\ (Len(resolver.block_stack) = 0 \/ InBranch)
     \/ ~GuardPending /\ InBranch
  /\ LET pushed == push_block(resolver, 1)
     IN ChainCall(pushed, "push_block",
                  ~is_done(pushed.block_stack[Len(pushed.block_stack)]))

ChainPopBlock ==
  /\ CanCall /\ ~GuardPending
  /\ Len(resolver.block_stack) > 0
  /\ ChainCall(pop_block(resolver), "pop_block", FALSE)

InitChain ==
  /\ resolver = Resolver_new
  /\ attr_last = <<>>
  /\ attr_ops = 0
  /\ ParseIdle
  /\ VmIdle
  /\ sel = Selector_new("Random")
  /\ sel_last = NoCall
  /\ sel_rets = <<>>
  /\ block = NoBlock
  /\ blk_acts = <<>>

NextChain ==
  \/ ChainMakeIf
  \/ ChainMakeElseIf
  \/ ChainMakeElse
  \/ ChainPushBlock
  \/ ChainPopBlock

SpecChain == InitChain /\ [][NextChain]_vars

(* The guards called with no block open, in order: the positions in the    *)
(* log of the clauses of the chains.                                       *)
ClauseAt == {i \in 1..Len(attr_last) :
               attr_last[i].op \in ChainGuards /\ attr_last[i].open = 0}

Clause(k) == CHOOSE i \in ClauseAt : Cardinality({j \in ClauseAt : j <= i}) = k

(* The log is that of one chain, resolved to its end: make_if, any number  *)
(* of make_else_if, make_else, the block of each clause pushed.            *)
WholeChain ==
  LET n == Cardinality(ClauseAt)
  IN /\ n >= 2
     /\ attr_last[Clause(1)].op = "make_if"
     /\ attr_last[Clause(n)].op = "make_else"
     /\ \A k \in 2..(n - 1) : attr_last[Clause(k)].op = "make_else_if"
     /\ Clause(n) < Len(attr_last)

(* The clauses whose block was executed, and the clause to execute: the    *)
(* first whose condition is true, the else clause if none is.              *)
ExecutedClauses == {k \in 1..Cardinality(ClauseAt) : attr_last[Clause(k) + 1].x}

TrueClauses == {k \in 1..(Cardinality(ClauseAt) - 1) : attr_last[Clause(k)].x}

FirstTrue ==
  IF TrueClauses = {} THEN Cardinality(ClauseAt)
  ELSE CHOOSE k \in TrueClauses : \A j \in TrueClauses : k <= j

(* C37: in a chain of blocks guarded by make_if, make_else_if .., and      *)
(* make_else, with only blocks nested in an executed branch in between,    *)
(* exactly one block is executed: the first whose condition is true, the   *)
(* else block if none is; and no condval that is propagated into a         *)
(* prev_condval is true.                                                   *)
C37_ExactlyOne ==
  /\ WholeChain => ExecutedClauses = {FirstTrue}
  /\ attrs(resolver).prev_condval # "True"
  /\ \A k \in 1..Len(resolver.block_stack) :
       resolver.block_stack[k].attrs.prev_condval # "True"

(* The same for the chains whose nested blocks are not guarded. *)
PlainNestingExactlyOne ==
  (WholeChain /\ \A i \in 1..Len(attr_last) :
                   attr_last[i].op \in ChainGuards => attr_last[i].open = 0) =>
    ExecutedClauses = {FirstTrue}

(* No propagated condval is true. *)
PropagatedNeverTrue ==
  /\ attrs(resolver).prev_condval # "True"
  /\ \A k \in 1..Len(resolver.block_stack) :
       resolver.block_stack[k].attrs.prev_condval # "True"

(***************************************************************************)
(* Value-stack balance over the steps of VM::run (SpecRun).                *)
(***************************************************************************)

(* The step pops the top frame and the run goes on (runtime.rs:498-502).   *)
FramePopped ==
  /\ vm_result.status = "running" /\ vm_result'.status = "running"
  /\ Len(call_stack) > 0
  /\ call_stack' = SubSeq(call_stack, 1, Len(call_stack) - 1)

(* The step returns from VM::run with a string (runtime.rs:506).           *)
Returned == vm_result.status = "running" /\ vm_result'.status = "ok"

(* The frame that pushed the top frame: the frame below it, or the one     *)
(* below that when the frame below was pushed in the same step and has not *)
(* run yet (a dynamic key's frame under the setter value's frame,          *)
(* runtime.rs:239/253, or under a map pair's value frame, 303/306).        *)
Pusher ==
  IF NotRun(call_stack[Len(call_stack) - 1])
  THEN Len(call_stack) - 2 ELSE Len(call_stack) - 1

(* A popped frame with an output pushes exactly its rendered output, and   *)
(* frame d then has one more value waiting for its pending intents.        *)
DeliversTo(d) ==
  /\ val_stack' = Append(val_stack, render_output_value(Top).val)
  /\ Holds(d)' = Holds(d) + 1
  /\ NetOf(call_stack[d].intents) >= Holds(d)'

(* Values leave the value stack only for the intent at the head of the top *)
(* frame, no more of them than that intent pops, or for the caller of      *)
(* VM::run; the caller finds one value, the root frame's rendered output,  *)
(* and gets it as a string.                                                *)
ConsumedOnce ==
  /\ (FramePopped /\ ~Top.has_output) => val_stack' = val_stack
  /\ (FramePopped /\ Len(call_stack) = 1) =>
       /\ Top.has_output
       /\ val_stack' = <<render_output_value(call_stack[1]).val>>
  /\ (vm_result.status = "running" /\ Len(val_stack') < Len(val_stack)) =>
       \/ Returned
       \/ /\ Len(call_stack) > 0 /\ Len(Top.intents) > 0
          /\ Len(val_stack) - Len(val_stack') <= Pops(Top.intents[1])
  /\ Returned =>
       /\ Len(call_stack) = 0
       /\ Len(val_stack) = 1
       /\ vm_result'.out = StringVal(to_string(val_stack[1]))
       /\ val_stack' = <<>>

(* C38 as stated: the value a popped frame pushes is for an intent of the  *)
(* frame directly below it.                                                *)
C38_StepOriginal ==
  /\ (FramePopped /\ Top.has_output /\ Len(call_stack) > 1) =>
       \E below \in {Len(call_stack) - 1} : DeliversTo(below)
  /\ ConsumedOnce

C38_Original == [][C38_StepOriginal]_vars

(* C38: the value a popped frame pushes is consumed by exactly one intent  *)
(* of the frame that pushed the popped frame, which is the frame below it  *)
(* or, below a key frame pushed in the same step, the second frame below   *)
(* it; so when the call stack is empty the value stack holds exactly one   *)
(* value, the root frame's rendered output, and VM::run returns it as a    *)
(* string.                                                                 *)
C38_Step ==
  /\ (FramePopped /\ Top.has_output /\ Len(call_stack) > 1) =>
       \E owner \in {Pusher} : owner >= 1 /\ DeliversTo(owner)
  /\ ConsumedOnce

C38_ValueStackBalance == [][C38_Step]_vars

(* The value frame of a dynamic setter has been popped above the key's     *)
(* frame, which has not run: the value waits for SetValue two frames down. *)
C38_Witness ==
  /\ vm_result.status = "running"
  /\ Len(call_stack) = 2
  /\ NotRun(call_stack[2])
  /\ Len(call_stack[1].intents) > 0 /\ call_stack[1].intents[1].k = "SetValue"
  /\ Len(val_stack) = 1
  /\ Holds(1) = 1

(***************************************************************************)
(* The blocks RantParser::parse_block returns (SpecParse).                 *)
(***************************************************************************)

(* parse_block has just returned a Block to parse_sequence_inner. *)
BlockReturned == parse_ret.some /\ parse_ret.end = "Block"

(* The element sequences of the returned block. *)
ReturnedElements == parse_ret.nodes[1].exprs

(* The block that was read is {} : the two tokens read last are its braces. *)
EmptyBraces ==
  /\ reader >= 2
  /\ tokens[reader - 1].t = "LeftBrace"
  /\ tokens[reader].t = "RightBrace"

(* C39: every Block parse_block returns has at least one element sequence, *)
(* {} has exactly one, the empty sequence; so the range push_block_frame   *)
(* and next_element draw the element index from is never empty, and a      *)
(* fresh selector of any mode accepts the block's element count.           *)
C39_AtLeastOneSequence ==
  BlockReturned =>
    /\ Len(ReturnedElements) >= 1
    /\ EmptyBraces => ReturnedElements = << <<>> >>
    /\ next_usize(Len(ReturnedElements)) # {}
    /\ \A m \in SelectorMode :
         \A rng \in RngDraws(Selector_new(m), Len(ReturnedElements)) :
           /\ select(Selector_new(m), Len(ReturnedElements),
                     rng.d_init, rng.sh_init, rng.d_step, rng.sh_step).res = "Ok"
           /\ select(Selector_new(m), Len(ReturnedElements),
                     rng.d_init, rng.sh_init, rng.d_step, rng.sh_step).idx
                \in next_usize(Len(ReturnedElements))

(* parse_block has returned the block of {} with its one empty sequence.   *)
C39_Witness ==
  /\ BlockReturned
  /\ EmptyBraces
  /\ ReturnedElements = << <<>> >>

====
